---- MODULE Spec2Model ----
(***************************************************************************)
(* zzping-daemon: the ICMP transport (zzping-daemon/src/transport.rs) and  *)
(* the packet structs (zzping-daemon/src/icmp.rs).                         *)
(*                                                                         *)
(* Time is a monotonic integer clock `now` (Instant); one tick stands for  *)
(* 100 microseconds, the granularity of the jitter that Destination::send  *)
(* applies to last_pckt_sent.  A Duration is a natural number of ticks.    *)
(* Option<T> is a sequence of length 0 (None) or 1 (Some).                 *)
(* PacketSent.when (the wall clock stamp) is never read by the transport   *)
(* and is left out; each PacketSent carries a history field `id`, the      *)
(* destination's sent_count at the time of the send, that names it.        *)
(*                                                                         *)
(* The receiver thread and the hand-off of its replies to the main thread  *)
(* (receiver_thread, Comms::recv_all) are the second part: SpecThreads.    *)
(* The main loop of zzping-daemon/src/main.rs with the failures of its     *)
(* sockets is the third: SpecLoop.                                         *)
(* The stats datagram (zzping-lib/src/framestats.rs, written by the daemon *)
(* and read by zzping-gui/src/udp_comm.rs) is the fourth: SpecStats.       *)
(* Integers wider than TLC's are sequences of 16-bit limbs, lowest first;  *)
(* the bytes of a message are a sequence of 0..255.                        *)
(* FrameDataQ::compute_percentiles (zzping-lib/src/framedataq.rs) with its *)
(* f32 arithmetic is the fifth: SpecPercentiles.  An f32 is held as an     *)
(* integer count of eighths, rounded to 24 significant bits.               *)
(* The frame codec of the same file (FDCodecState and the MessagePack form *)
(* of FrameDataQ<Encoded>) is the sixth: SpecCodec.  The f32 fields        *)
(* inflight and lost_packets are held as integer counts of halves.         *)
(***************************************************************************)
EXTENDS Integers, Sequences, FiniteSets, TLC

\* ---------------------------------------------------------------- bounds
\* The clock stops at MaxTime.
MaxTime == 1
\* Destinations added to one Comms.
MaxDest == 2
\* Successful sends of one run, over all destinations.
MaxSent == 2
\* Retention windows (forget_inflight, forget_recv, forget_lost) are 0..MaxForget.
MaxForget == 1
\* Intervals are 1..MaxInterval ticks.
MaxInterval == 1
\* u16 draws (ident, seq) are taken from 0..MaxU16Draw.
MaxU16Draw == 1
\* Entries of one lost_packets queue after which the free-running cleanup stops.
MaxLost == 2
\* The main loop's refresh period cli_refresh, in ticks.
CliRefresh == 0
\* Sends of one run on a crowded destination.
MaxCrowdSent == 2
\* send_all is called with a limit of 0..MaxLimit.
MaxLimit == 2
\* Frames aggregated into one.
MaxFold == 2
\* Frames written to one file.
MaxRecords == 2
\* Replies the socket hands to the receiver thread in one run.
MaxReplies == 3
\* Round-trip times in one slice given to compute_percentiles.
MaxSamples == 3

\* FDCodecCfg.full_encode_secs runs over 1..MaxFullEncodeSecs.
MaxFullEncodeSecs == 2

\* ------------------------------------------------------ program constants
\* gen_range(16, 64): the admission threshold drawn by Destination::send.
RndLo == 16
RndHi == 64
\* gen_range(0, 101) microseconds of jitter: 0 or 1 tick.
MaxJitter == 1
\* `as u16` of the queue length.
U16 == 65536
\* Destination::new sets seq to 1.
FirstSeq == 1
\* receiver_thread: sync_time = 100 microseconds, one tick.
SyncTime == 1
\* The significand of an f32 has 24 binary digits.
F32Digits == 24

VARIABLES
    config,        \* Comms.config: CommConfig
    dest,          \* Comms.dest: Vec<Destination>
    now,           \* Instant::now()
    last_refresh,  \* main's last_refresh timer
    op,            \* history: the last call and what it returned
    buffer,        \* receiver_thread: its scratch list `buffer`
    since_sync,    \* receiver_thread: last_sync.elapsed(), capped at SyncTime + 1
    readbuf,       \* Comms.readbuf: the Vec behind the Mutex
    mutex,         \* the Mutex of readbuf: "free", or the thread that holds it
    pc,            \* the position of the receiver thread (rx) and of recv_all (main)
    local,         \* recv_all: its local `buffer`
    arrived,       \* history: the number of replies the receiver thread has parsed
    delivered,     \* history: the replies passed to Destination::recv, in order
    contended,     \* history: a try_lock found the Mutex held while buffer was not empty
    aborted,       \* the main thread has panicked
    udp_ok,        \* main.rs: udp_ok of the last refresh
    udp_attempted, \* history: per destination, socket.send_to was called in the last refresh
    cli_stat,      \* the arguments of FrameStats::encode_stats
    msg,           \* Option: the Vec<u8> that encode_stats returned
    udp_stats,     \* Option: what UdpStats::from_buf returned for msg
    samples,       \* the slice v given to compute_percentiles
    percentiles,   \* Option: the [i64; 7] that compute_percentiles returned
    cfg,           \* the FDCodecCfg of the writer and of the reader
    encoder,       \* the FDCodecState of the writer
    decoder,       \* the FDCodecState of the reader
    frame,         \* Option: the FrameDataQ<Complete> given to encode last
    rmp,           \* Option: the bytes try_to_rmp returned, not yet read
    decoded,       \* Option: the FrameDataQ<Complete> that decode returned for frame
    keyframe,      \* history: Option, the seconds of the last frame encoded with an absolute timestamp
    header_args,   \* the schema, the version and the FDCodecCfg given to the writer of a header
    header,        \* Option: the bytes of the header
    header_cfg,    \* Option: what try_from_header returned for header
    file,          \* history: the frames written to the file, how many of them whole, and whether a cut one follows
    iter_buf,           \* FDCodecIter.buf: the bytes of the file not yet read
    items,         \* history: the frames FDCodecIter::next has returned, in order
    iter,          \* the FDCodecIter: new, open, ended (next returned None) or panicked
    nones,         \* history: how many times next has returned None, up to 2
    data,          \* the slice of frames given to fold_vec
    folded,        \* the frame fold_vec returned, or None before the call
    mapper,        \* HuffmanMapS.symmetric of the writer and of the reader
    diffvalue,     \* the DiffValue given to to_hkey
    written,       \* what the writer appended: the symbol and the extra bits, or a panic; None before
    read_diff,     \* the DiffValue the reader got from them, or a panic; None before
    drawn,         \* history: rnd_num and min_delay of the last Destination::send of a crowded destination, or None
    sends,         \* history: the packets the crowded destination has sent in this run
    last_round,    \* history: limit, the destinations send_all tried, in order, and those it sent to; None before
    cs_cfg,        \* the precision (as its reciprocal) and the window_size both CompositeStage are built with
    cs_data,       \* history: the values given to encode, in order
    cs_bits,       \* the BitVec: per value, the Huffman symbol and the extra bits appended
    cs_enc,        \* the window of the predictor of the encoding stage
    cs_dec,        \* the window of the predictor of the decoding stage
    cs_windows,    \* history: the window of the encoding stage after each value
    new_data,      \* the values decode has returned, in order
    cs_status,     \* ok, or how the run ended: a panic of encode or decode, or HuffmanDecodeNoItemError
    sending,       \* Option: the packet PacketSent::new has transmitted and not yet stamped, with the arguments of its send
    stamped,       \* the replies the receiver thread has stamped, not yet given to Destination::recv
    answered,      \* history: the packets whose reply the receiver thread has stamped, and when
    precision_x10, \* cfg.precision_mult, in tenths
    intervals,     \* the interval of every destination added so far, in microseconds
    wait_ms,          \* Option: the delay get_delay returned to main, in milliseconds
    pace_pc,       \* main: reading the targets (config), in its loop (loop), or aborted by recv_all (aborted)
    mono,          \* the monotonic clock of main's refresh timers, in ticks
    utc_hour,      \* the wall clock as get_logfile_now formats it: date and hour
    strnow,        \* main: the ending of the current file names
    time_since_report, \* main: the instant of the last report
    refreshed_at,  \* main: last_refresh, as the logging loop keeps it
    logfiles,      \* per destination and file ending: Option of the frames in the file
    log_pc         \* main: before its timers are set (start) or in its loop (loop)

\* The transport proper
transport_vars == <<config, dest, now, last_refresh, op>>
\* The two threads and what they share
thread_vars == <<buffer, since_sync, readbuf, mutex, pc, local, arrived, delivered, contended>>

\* The main loop
loop_vars == <<aborted, udp_ok, udp_attempted>>

\* The stats datagram
stats_vars == <<cli_stat, msg, udp_stats>>

\* The percentiles of a frame
percentile_vars == <<samples, percentiles>>

\* The frame codec
codec_vars == <<cfg, encoder, decoder, frame, rmp, decoded, keyframe>>

\* The header of a frame file
header_vars == <<header_args, header, header_cfg>>

\* The reader of a frame file
iter_vars == <<file, iter_buf, items, iter, nones>>

\* The aggregation of frames
fold_vars == <<data, folded>>

\* The static Huffman mapping of one value
huff_vars == <<mapper, diffvalue, written, read_diff>>

\* The draws of the last send
draw_vars == <<drawn, sends>>

\* The last round of send_all
round_vars == <<last_round>>

\* The composite stage of the compressor
composite_vars == <<cs_cfg, cs_data, cs_bits, cs_enc, cs_dec, cs_windows, new_data, cs_status>>

\* The send in progress and the replies on their way to recv_all
race_vars == <<sending, stamped, answered>>

\* The pacing of the main loop
pace_vars == <<precision_x10, intervals, wait_ms, pace_pc>>

\* The log files of the daemon
log_vars == <<mono, utc_hour, strnow, time_since_report, refreshed_at, logfiles, log_pc>>

vars == <<transport_vars, thread_vars, loop_vars, stats_vars, percentile_vars, codec_vars, header_vars, iter_vars, fold_vars, huff_vars, draw_vars, round_vars, composite_vars, race_vars, pace_vars, log_vars>>

\* What the calls on the transport leave alone
outside_transport == <<thread_vars, loop_vars, stats_vars, percentile_vars, codec_vars, header_vars, iter_vars, fold_vars, huff_vars, draw_vars, round_vars, composite_vars, race_vars, pace_vars, log_vars>>
\* What the steps of the two threads leave alone
outside_threads == <<config, now, last_refresh, op, loop_vars, stats_vars, percentile_vars, codec_vars, header_vars, iter_vars, fold_vars, huff_vars, draw_vars, round_vars, composite_vars, race_vars, pace_vars, log_vars>>
\* What the main loop leaves alone
outside_loop == <<thread_vars, stats_vars, percentile_vars, codec_vars, header_vars, iter_vars, fold_vars, huff_vars, draw_vars, round_vars, composite_vars, race_vars, pace_vars, log_vars>>
\* What the stats datagram leaves alone
outside_stats == <<transport_vars, thread_vars, loop_vars, percentile_vars, codec_vars, header_vars, iter_vars, fold_vars, huff_vars, draw_vars, round_vars, composite_vars, race_vars, pace_vars, log_vars>>
\* What compute_percentiles leaves alone
outside_percentiles == <<transport_vars, thread_vars, loop_vars, stats_vars, codec_vars, header_vars, iter_vars, fold_vars, huff_vars, draw_vars, round_vars, composite_vars, race_vars, pace_vars, log_vars>>
\* What the frame codec leaves alone
outside_codec == <<transport_vars, thread_vars, loop_vars, stats_vars, percentile_vars, header_vars, iter_vars, fold_vars, huff_vars, draw_vars, round_vars, composite_vars, race_vars, pace_vars, log_vars>>
\* What the header of a frame file leaves alone
outside_header == <<transport_vars, thread_vars, loop_vars, stats_vars, percentile_vars, codec_vars, iter_vars, fold_vars, huff_vars, draw_vars, round_vars, composite_vars, race_vars, pace_vars, log_vars>>
\* What the reader of a frame file leaves alone
outside_iter == <<transport_vars, thread_vars, loop_vars, stats_vars, percentile_vars, codec_vars, header_vars, fold_vars, huff_vars, draw_vars, round_vars, composite_vars, race_vars, pace_vars, log_vars>>
\* What the aggregation of frames leaves alone
outside_fold == <<transport_vars, thread_vars, loop_vars, stats_vars, percentile_vars, codec_vars, header_vars, iter_vars, huff_vars, draw_vars, round_vars, composite_vars, race_vars, pace_vars, log_vars>>
\* What the static Huffman mapping of one value leaves alone
outside_huff == <<transport_vars, thread_vars, loop_vars, stats_vars, percentile_vars, codec_vars, header_vars, iter_vars, fold_vars, draw_vars, round_vars, composite_vars, race_vars, pace_vars, log_vars>>
\* What the draws of the last send leaves alone
outside_draw == <<transport_vars, thread_vars, loop_vars, stats_vars, percentile_vars, codec_vars, header_vars, iter_vars, fold_vars, huff_vars, round_vars, composite_vars, race_vars, pace_vars, log_vars>>
\* What the last round of send_all leaves alone
outside_round == <<transport_vars, thread_vars, loop_vars, stats_vars, percentile_vars, codec_vars, header_vars, iter_vars, fold_vars, huff_vars, draw_vars, composite_vars, race_vars, pace_vars, log_vars>>
\* What the composite stage of the compressor leaves alone
outside_composite == <<transport_vars, thread_vars, loop_vars, stats_vars, percentile_vars, codec_vars, header_vars, iter_vars, fold_vars, huff_vars, draw_vars, round_vars, race_vars, pace_vars, log_vars>>
\* What the send in progress and the replies on their way to recv_all leaves alone
outside_race == <<transport_vars, thread_vars, loop_vars, stats_vars, percentile_vars, codec_vars, header_vars, iter_vars, fold_vars, huff_vars, draw_vars, round_vars, composite_vars, pace_vars, log_vars>>
\* What the pacing of the main loop leaves alone
outside_pace == <<transport_vars, thread_vars, loop_vars, stats_vars, percentile_vars, codec_vars, header_vars, iter_vars, fold_vars, huff_vars, draw_vars, round_vars, composite_vars, race_vars, log_vars>>
\* What the log files of the daemon leaves alone
outside_log == <<transport_vars, thread_vars, loop_vars, stats_vars, percentile_vars, codec_vars, header_vars, iter_vars, fold_vars, huff_vars, draw_vars, round_vars, composite_vars, race_vars, pace_vars>>

\* ------------------------------------------------------------- Option<T>
None == <<>>
Some(x) == <<x>>
is_none(o) == o = None
unwrap(o) == o[1]

\* ------------------------------------------------------- Instant helpers
\* Instant::saturating_duration_since
saturating_duration_since(a, b) == IF a >= b THEN a - b ELSE 0
\* Instant::checked_duration_since
checked_duration_since(a, b) == IF a >= b THEN Some(a - b) ELSE None

\* Faulty variant of sent_before: a packet exactly `wait` old still counts as recent.
sent_before_or_at(pck, t, wait) == saturating_duration_since(t, pck.sent) <= wait

\* transport.rs: sent_before / sent_after
sent_before(pck, t, wait) == saturating_duration_since(t, pck.sent) < wait
sent_after(pck, t, wait) == ~sent_before(pck, t, wait)

\* ------------------------------------------------------------ structures
U16Draws == 0..MaxU16Draw
Intervals == 1..MaxInterval
Forgets == 0..MaxForget

\* CommConfig (precision_mult is read by get_delay only)
CommConfig == [forget_inflight : Forgets, forget_recv : Forgets, forget_lost : Forgets]

\* icmp::PacketData as parsed by the receiver: seqn, ident, received
PacketData(seqn, ident, received) ==
    [seqn |-> seqn, ident |-> ident, received |-> received]

\* icmp::PacketSent::new: data.seqn, sent = Instant::now(), received = None
PacketSent_new(seqn, t, id) ==
    [seqn |-> seqn, sent |-> t, received |-> None, id |-> id]

\* Destination::new
Destination_new(interval, ident, t) ==
    [ interval |-> interval,
      last_pckt_sent |-> t - interval,
      seq |-> FirstSeq,
      ident |-> ident,
      inflight_packets |-> <<>>,
      recv_packets |-> <<>>,
      lost_packets |-> <<>>,
      sent_count |-> 0,
      recv_count |-> 0 ]

\* op: the kind of the last call, the destination it was made on, the reply it
\* was given, the path it took through the code (why) and the number of entries
\* it sent or promoted (n)
NoOp == [kind |-> "new", d |-> 0, packet |-> None, why |-> "", n |-> 0]

\* Comms::new spawns receiver_thread with an empty readbuf (lines 351-354);
\* receiver_thread starts with an empty buffer and last_sync = now (310-311)
ThreadsInit ==
    /\ buffer = <<>>
    /\ since_sync = 0
    /\ readbuf = <<>>
    /\ mutex = "free"
    /\ pc = [rx |-> "next", main |-> "lock"]
    /\ local = <<>>
    /\ arrived = 0
    /\ delivered = <<>>
    /\ contended = FALSE

\* main.rs before its loop: nothing has panicked, no refresh has run
LoopInit ==
    /\ aborted = FALSE
    /\ udp_ok = TRUE
    /\ udp_attempted = <<>>

\* No stats datagram has been built
StatsIdle ==
    /\ cli_stat = None
    /\ msg = None
    /\ udp_stats = None

\* compute_percentiles has not been called
PercentilesIdle ==
    /\ samples = <<>>
    /\ percentiles = None

\* FDCodecCfg::default() and FDCodecState::default(): no frame has been encoded
CodecIdle ==
    /\ cfg = [full_encode_secs |-> 60, recv_llq |-> None, delta_enc |-> FALSE]
    /\ encoder = [last_timestamp |-> None, last_subsec_ms |-> 0, last_recvq_0 |-> 0]
    /\ decoder = [last_timestamp |-> None, last_subsec_ms |-> 0, last_recvq_0 |-> 0]
    /\ frame = None
    /\ rmp = None
    /\ decoded = None
    /\ keyframe = None

\* No header has been written
HeaderIdle ==
    /\ header_args = None
    /\ header = None
    /\ header_cfg = None

\* No file has been opened
IterIdle ==
    /\ file = None
    /\ iter_buf = <<>>
    /\ items = <<>>
    /\ iter = "new"
    /\ nones = 0

\* Nothing is being aggregated
FoldIdle ==
    /\ data = <<>>
    /\ folded = None

\* No value is being mapped
HuffIdle ==
    /\ mapper = [symmetric |-> TRUE]
    /\ diffvalue = None
    /\ written = None
    /\ read_diff = None

\* No draw has been recorded
DrawIdle == drawn = None /\ sends = 0

\* send_all has not been called
RoundIdle == last_round = None

\* No CompositeStage has been built
CompositeIdle ==
    /\ cs_cfg = [per |-> 1, window_size |-> 0]
    /\ cs_data = <<>>
    /\ cs_bits = <<>>
    /\ cs_enc = <<>>
    /\ cs_dec = <<>>
    /\ cs_windows = <<>>
    /\ new_data = <<>>
    /\ cs_status = "ok"

\* No send is in progress and no reply is on its way
RaceIdle ==
    /\ sending = None
    /\ stamped = <<>>
    /\ answered = {}

\* main has not read its targets
PaceIdle ==
    /\ precision_x10 = 10
    /\ intervals = <<>>
    /\ wait_ms = None
    /\ pace_pc = "config"

\* main has not set its timers; no log file exists
LogIdle ==
    /\ mono = 0
    /\ utc_hour = 0
    /\ strnow = 0
    /\ time_since_report = 0
    /\ refreshed_at = 0
    /\ logfiles = <<>>
    /\ log_pc = "start"

(* The daemon before its loop: the receiver thread has just been spawned,
   no refresh has run, no datagram has been built. *)
RestInit ==
    /\ ThreadsInit
    /\ LoopInit
    /\ StatsIdle
    /\ PercentilesIdle
    /\ CodecIdle
    /\ HeaderIdle
    /\ IterIdle
    /\ FoldIdle
    /\ HuffIdle
    /\ DrawIdle
    /\ RoundIdle
    /\ CompositeIdle
    /\ RaceIdle
    /\ PaceIdle
    /\ LogIdle

\* Comms::new(config); main.rs: last_refresh = Instant::now() - 60 s
Init ==
    /\ config \in CommConfig
    /\ dest = <<>>
    /\ now = 0
    /\ last_refresh = 0 - (CliRefresh + 1)
    /\ op = NoOp
    /\ RestInit

\* The clock advances.
Tick ==
    /\ now < MaxTime
    /\ now' = now + 1
    /\ op' = [NoOp EXCEPT !.kind = "tick"]
    /\ UNCHANGED <<config, dest, last_refresh>>
    /\ UNCHANGED outside_transport

\* Comms::add_destination (interval 0 panics); ident is a random u16.
\* Comms.delay, which add_destination recomputes, is not part of the state:
\* Destination::send takes the slack as its min_delay argument.
AddDestination(interval, ident) ==
    /\ interval # 0
    /\ dest' = Append(dest, Destination_new(interval, ident, now))
    /\ op' = [NoOp EXCEPT !.kind = "add", !.d = Len(dest) + 1]
    /\ UNCHANGED <<config, now, last_refresh>>
    /\ UNCHANGED outside_transport

\* ------------------------------------------------------ Destination::recv
\* line 179: the entry carries the reply's seqn and has no rtt yet
recv_matches(sent, packet) ==
    sent.seqn = packet.seqn /\ is_none(sent.received)

\* Faulty variant of recv_elapsed: the elapsed time is read off the clock at the call,
\* not off the reply's stamp.
recv_elapsed_now(sent, packet, t) == Some(t - sent.sent)

\* Faulty variant of recv_elapsed: saturating_duration_since in place of
\* checked_duration_since, a reply stamped before the send gives rtt 0.
recv_elapsed_saturating(sent, packet, t) ==
    IF ~is_none(packet.received)
    THEN Some(saturating_duration_since(unwrap(packet.received), sent.sent))
    ELSE Some(t - sent.sent)

\* lines 180-183: the elapsed time, None when the reply is stamped before the send
recv_elapsed(sent, packet, t) ==
    IF ~is_none(packet.received)
    THEN checked_duration_since(unwrap(packet.received), sent.sent)
    ELSE Some(t - sent.sent)

\* lines 178-193, the effect of the loop on inflight_packets
recv_mark(q, packet, t) ==
    [i \in DOMAIN q |->
        IF recv_matches(q[i], packet)
        THEN [q[i] EXCEPT !.received = recv_elapsed(q[i], packet, t)]
        ELSE q[i]]

\* Faulty variant of recv_promoted: only the first matching entry is pushed.
recv_promoted_first(q, packet, t) ==
    LET hit(s) == recv_matches(s, packet) /\ ~is_none(recv_elapsed(s, packet, t))
        hits == SelectSeq(q, hit)
    IN  IF hits = <<>> THEN <<>>
        ELSE <<[hits[1] EXCEPT !.received = recv_elapsed(hits[1], packet, t)]>>

\* lines 184-190: the clones pushed to recv_packets, in queue order
recv_promoted(q, packet, t) ==
    LET hit(s) == recv_matches(s, packet) /\ ~is_none(recv_elapsed(s, packet, t))
        hits == SelectSeq(q, hit)
    IN  [i \in DOMAIN hits |-> [hits[i] EXCEPT !.received = recv_elapsed(hits[i], packet, t)]]

\* Faulty variant of recv_retain: the promoted entries are left in inflight_packets.
recv_retain_all(q) == q

\* line 195: inflight_packets.retain(|x| x.received.is_none())
recv_retain(q) == SelectSeq(q, LAMBDA x : is_none(x.received))

\* Faulty variant of Destination_recv: recv_count counts one per reply that
\* promotes, however many entries it promotes.
Destination_recv_counts_replies(dst, packet, t) ==
    IF dst.ident # packet.ident
    THEN dst
    ELSE LET marked == recv_mark(dst.inflight_packets, packet, t)
             promoted == recv_promoted(dst.inflight_packets, packet, t)
         IN  [dst EXCEPT
                !.inflight_packets = IF promoted # <<>> THEN recv_retain(marked) ELSE marked,
                !.recv_packets = @ \o promoted,
                !.recv_count = @ + (IF promoted # <<>> THEN 1 ELSE 0)]

\* Faulty variant of Destination_recv: the ident of the reply is not compared.
Destination_recv_any_ident(dst, packet, t) ==
    LET marked == recv_mark(dst.inflight_packets, packet, t)
        promoted == recv_promoted(dst.inflight_packets, packet, t)
    IN  [dst EXCEPT
           !.inflight_packets = IF promoted # <<>> THEN recv_retain(marked) ELSE marked,
           !.recv_packets = @ \o promoted,
           !.recv_count = @ + Len(promoted)]

\* Faulty variant of Destination_recv: recv_count counts every reply with the
\* destination's ident, matched or not.
Destination_recv_counts_all(dst, packet, t) ==
    IF dst.ident # packet.ident
    THEN dst
    ELSE LET marked == recv_mark(dst.inflight_packets, packet, t)
             promoted == recv_promoted(dst.inflight_packets, packet, t)
         IN  [dst EXCEPT
                !.inflight_packets = IF promoted # <<>> THEN recv_retain(marked) ELSE marked,
                !.recv_packets = @ \o promoted,
                !.recv_count = @ + 1]

\* Destination::recv, the destination after the call
Destination_recv(dst, packet, t) ==
    IF dst.ident # packet.ident
    THEN dst
    ELSE LET marked == recv_mark(dst.inflight_packets, packet, t)
             promoted == recv_promoted(dst.inflight_packets, packet, t)
         IN  [dst EXCEPT
                !.inflight_packets = IF promoted # <<>> THEN recv_retain(marked) ELSE marked,
                !.recv_packets = @ \o promoted,
                !.recv_count = @ + Len(promoted)]

\* The path of one call: line 176 (ident), the loop without a hit (nomatch),
\* line 187 for every hit (early), lines 189-191 (promoted)
recv_path(dst, packet, t) ==
    IF dst.ident # packet.ident THEN "ident"
    ELSE IF \A i \in DOMAIN dst.inflight_packets :
                ~recv_matches(dst.inflight_packets[i], packet) THEN "nomatch"
    ELSE IF recv_promoted(dst.inflight_packets, packet, t) = <<>> THEN "early"
    ELSE "promoted"

\* Destination::recv is called with a reply; the reply's stamp is in the past
Recv(d, packet) ==
    /\ d \in DOMAIN dest
    /\ dest' = [dest EXCEPT ![d] = Destination_recv(dest[d], packet, now)]
    /\ op' = [kind |-> "recv", d |-> d, packet |-> Some(packet),
              why |-> recv_path(dest[d], packet, now),
              n |-> Len(recv_promoted(dest[d].inflight_packets, packet, now))]
    /\ UNCHANGED <<config, now, last_refresh>>
    /\ UNCHANGED outside_transport

\* ------------------------------------------------------ Destination::send
\* Faulty variant of send_push: the new packet is put at the head of the queue.
send_push_front(q, packet) == <<packet>> \o q

\* line 221: inflight_packets.push(packet)
send_push(q, packet) == Append(q, packet)

\* Faulty variant of send_refused: one more in flight than drawn is still sent.
send_refused_late(dst, min_delay, rnd_num, t) ==
    \/ rnd_num + 1 < Len(dst.inflight_packets) % U16
    \/ (t - dst.last_pckt_sent) + min_delay < dst.interval

\* Faulty variant of send_refused: as many in flight as drawn is refused too.
send_refused_at(dst, min_delay, rnd_num, t) ==
    \/ rnd_num <= Len(dst.inflight_packets) % U16
    \/ (t - dst.last_pckt_sent) + min_delay < dst.interval

\* lines 206-217: the two early returns
send_refused(dst, min_delay, rnd_num, t) ==
    \/ rnd_num < Len(dst.inflight_packets) % U16
    \/ (t - dst.last_pckt_sent) + min_delay < dst.interval

\* Destination::send, the destination after the call
Destination_send(dst, min_delay, rnd_num, jitter, new_seq, t) ==
    IF send_refused(dst, min_delay, rnd_num, t)
    THEN dst
    ELSE [dst EXCEPT
            !.last_pckt_sent = t - jitter,
            !.inflight_packets = send_push(@, PacketSent_new(dst.seq, t, dst.sent_count + 1)),
            !.seq = new_seq,
            !.sent_count = @ + 1]

\* Destination::send, the packet is handed to the kernel and the kernel takes it
\* (SendPanics is the other outcome)
RECURSIVE total_sent(_)
total_sent(ds) == IF ds = <<>> THEN 0 ELSE ds[1].sent_count + total_sent(Tail(ds))

Send(d, min_delay, rnd_num, jitter, new_seq) ==
    /\ d \in DOMAIN dest
    /\ total_sent(dest) < MaxSent
    /\ dest' = [dest EXCEPT ![d] = Destination_send(dest[d], min_delay, rnd_num, jitter, new_seq, now)]
    /\ op' = [kind |-> "send", d |-> d, packet |-> None,
              why |-> IF send_refused(dest[d], min_delay, rnd_num, now) THEN "refused" ELSE "sent",
              n |-> IF send_refused(dest[d], min_delay, rnd_num, now) THEN 0 ELSE 1]
    /\ UNCHANGED <<config, now, last_refresh>>
    /\ UNCHANGED outside_transport

\* --------------------------------------------------------- Comms::cleanup
\* lines 404-410: the clones of in-flight entries pushed to lost_packets
cleanup_lost(dst, c, t) ==
    SelectSeq(dst.inflight_packets, LAMBDA x : sent_after(x, t, c.forget_recv))

\* lines 404-416 for one destination
Destination_cleanup(dst, c, t) ==
    [dst EXCEPT
        !.inflight_packets = SelectSeq(@, LAMBDA x : sent_before(x, t, c.forget_inflight)),
        !.recv_packets = SelectSeq(@, LAMBDA x : sent_before(x, t, c.forget_inflight + c.forget_recv)),
        !.lost_packets = SelectSeq(@ \o cleanup_lost(dst, c, t),
                                   LAMBDA x : sent_before(x, t, c.forget_inflight + c.forget_lost))]

\* Comms::cleanup, every destination
Comms_cleanup ==
    /\ dest' = [d \in DOMAIN dest |-> Destination_cleanup(dest[d], config, now)]
    /\ op' = [NoOp EXCEPT !.kind = "cleanup"]
    /\ UNCHANGED <<config, now>>
    /\ UNCHANGED outside_transport

\* Comms::cleanup called at any time
Cleanup ==
    /\ dest # <<>>
    /\ \A d \in DOMAIN dest : Len(dest[d].lost_packets) < MaxLost
    /\ Comms_cleanup
    /\ UNCHANGED last_refresh

\* main.rs lines 134-138: cleanup once per refresh
MainCleanup ==
    /\ dest # <<>>
    /\ now - last_refresh > CliRefresh
    /\ last_refresh' = now
    /\ Comms_cleanup

\* ------------------------------------------------------- Comms::recv_all
\* lines 457-461 for one reply of the buffer: every destination is offered it
Comms_recv_all(ds, packet, t) ==
    [d \in DOMAIN ds |-> Destination_recv(ds[d], packet, t)]

accepted(ds, packet, t) ==
    { d \in DOMAIN ds : recv_path(ds[d], packet, t) = "promoted" }

RecvAll(packet) ==
    /\ dest # <<>>
    /\ dest' = Comms_recv_all(dest, packet, now)
    /\ op' = [kind |-> "recv_all", d |-> 0, packet |-> None, why |-> "",
              n |-> Cardinality(accepted(dest, packet, now))]
    /\ UNCHANGED <<config, now, last_refresh>>
    /\ UNCHANGED outside_transport

\* ------------------------------------------------------------------ specs
Replies ==
    { PacketData(s, i, r) : s \in U16Draws, i \in U16Draws,
                            r \in {None} \cup { Some(t) : t \in 0..now } }

\* gen_range(16, 64) is read only through rnd_num < inflight: its two extremes
RndDraws == {RndLo, RndHi - 1}

\* min_delay is read only through elapsed + min_delay < interval, elapsed >= 0:
\* every min_delay >= interval behaves as interval does
MinDelays(dst) == 0..dst.interval

SendStep ==
    \E d \in DOMAIN dest, rnd_num \in RndDraws, jitter \in 0..MaxJitter,
       new_seq \in U16Draws :
        \E min_delay \in MinDelays(dest[d]) :
            Send(d, min_delay, rnd_num, jitter, new_seq)

RecvStep == \E d \in DOMAIN dest, packet \in Replies : Recv(d, packet)

\* add_destination on a Comms that has none: the runs of one destination
AddFirst ==
    /\ dest = <<>>
    /\ \E interval \in Intervals, ident \in U16Draws : AddDestination(interval, ident)

\* One destination, the calls in any order.  Destination::send, Destination::recv
\* and the body of the loop of Comms::cleanup read and write one destination only.
Next ==
    \/ Tick
    \/ AddFirst
    \/ SendStep
    \/ RecvStep
    \/ Cleanup

Spec == Init /\ [][Next]_vars

\* One destination, cleanup as the main loop calls it: at most once per refresh.
NextMain ==
    \/ Tick
    \/ AddFirst
    \/ SendStep
    \/ RecvStep
    \/ MainCleanup

SpecMain == Init /\ [][NextMain]_vars

\* Several destinations on one Comms; every reply is offered to all of them.
AddStep ==
    /\ Len(dest) < MaxDest
    /\ \E interval \in Intervals, ident \in U16Draws : AddDestination(interval, ident)

RecvAllStep == \E packet \in Replies : RecvAll(packet)

NextComms ==
    \/ Tick
    \/ AddStep
    \/ SendStep
    \/ RecvAllStep

SpecComms == Init /\ [][NextComms]_vars

\* ------------------------------------- receiver_thread and Comms::recv_all
\* Faulty variant of readbuf_append: the scratch list replaces the shared buffer.
readbuf_overwrite(locked_buffer, buf) == buf

\* line 325: locked_buffer.append(&mut buffer)
readbuf_append(locked_buffer, buf) == locked_buffer \o buf

\* last_sync.elapsed() after dt more ticks; only `> sync_time` is read of it
elapsed_after(dt) ==
    IF since_sync + dt > SyncTime THEN SyncTime + 1 ELSE since_sync + dt

\* lines 315-319: next_with_timeout returns a reply within sync_time; it is
\* parsed, stamped and pushed.  `n` is a history field: the arrival number.
RxPacket(seqn, ident, dt) ==
    /\ pc.rx = "next"
    /\ arrived < MaxReplies
    /\ arrived' = arrived + 1
    /\ buffer' = Append(buffer, [n |-> arrived + 1,
                                 data |-> PacketData(seqn, ident, Some(now))])
    /\ since_sync' = elapsed_after(dt)
    /\ pc' = [pc EXCEPT !.rx = "sync"]
    /\ UNCHANGED <<readbuf, mutex, local, delivered, contended, dest>>
    /\ UNCHANGED outside_threads

\* line 315: next_with_timeout runs into its timeout (or fails: unwrap_or_default)
RxTimeout ==
    /\ pc.rx = "next"
    /\ since_sync' = elapsed_after(SyncTime)
    /\ pc' = [pc EXCEPT !.rx = "sync"]
    /\ UNCHANGED <<buffer, readbuf, mutex, local, arrived, delivered, contended, dest>>
    /\ UNCHANGED outside_threads

\* line 321: the sync period has not run out
RxNotYet ==
    /\ pc.rx = "sync"
    /\ ~(since_sync > SyncTime)
    /\ pc' = [pc EXCEPT !.rx = "next"]
    /\ UNCHANGED <<buffer, since_sync, readbuf, mutex, local, arrived, delivered, contended, dest>>
    /\ UNCHANGED outside_threads

\* line 323: try_lock succeeds
RxTryLockOk ==
    /\ pc.rx = "sync"
    /\ since_sync > SyncTime
    /\ mutex = "free"
    /\ mutex' = "rx"
    /\ pc' = [pc EXCEPT !.rx = "append"]
    /\ UNCHANGED <<buffer, since_sync, readbuf, local, arrived, delivered, contended, dest>>
    /\ UNCHANGED outside_threads

\* line 323: try_lock would block; the scratch list is kept for the next round
RxTryLockBusy ==
    /\ pc.rx = "sync"
    /\ since_sync > SyncTime
    /\ mutex # "free"
    /\ contended' = (contended \/ buffer # <<>>)
    /\ pc' = [pc EXCEPT !.rx = "next"]
    /\ UNCHANGED <<buffer, since_sync, readbuf, mutex, local, arrived, delivered, dest>>
    /\ UNCHANGED outside_threads

\* lines 325-326, under the lock
RxAppend ==
    /\ pc.rx = "append"
    /\ readbuf' = readbuf_append(readbuf, buffer)
    /\ buffer' = <<>>
    /\ since_sync' = 0
    /\ pc' = [pc EXCEPT !.rx = "release"]
    /\ UNCHANGED <<mutex, local, arrived, delivered, contended, dest>>
    /\ UNCHANGED outside_threads

\* line 327: locked_buffer goes out of scope, the Mutex is released
RxRelease ==
    /\ pc.rx = "release"
    /\ mutex' = "free"
    /\ pc' = [pc EXCEPT !.rx = "next"]
    /\ UNCHANGED <<buffer, since_sync, readbuf, local, arrived, delivered, contended, dest>>
    /\ UNCHANGED outside_threads

\* recv_all line 452: readbuf.lock() blocks until the Mutex is free
MainLock ==
    /\ pc.main = "lock"
    /\ mutex = "free"
    /\ mutex' = "main"
    /\ pc' = [pc EXCEPT !.main = "drain"]
    /\ UNCHANGED <<buffer, since_sync, readbuf, local, arrived, delivered, contended, dest>>
    /\ UNCHANGED outside_threads

\* recv_all lines 451-453: buffer = vec![]; buffer.append(&mut locked_buffer)
MainDrain ==
    /\ pc.main = "drain"
    /\ local' = readbuf
    /\ readbuf' = <<>>
    /\ pc' = [pc EXCEPT !.main = "drop"]
    /\ UNCHANGED <<buffer, since_sync, mutex, arrived, delivered, contended, dest>>
    /\ UNCHANGED outside_threads

\* recv_all line 455: drop(locked_buffer)
MainDrop ==
    /\ pc.main = "drop"
    /\ mutex' = "free"
    /\ pc' = [pc EXCEPT !.main = "match"]
    /\ UNCHANGED <<buffer, since_sync, readbuf, local, arrived, delivered, contended, dest>>
    /\ UNCHANGED outside_threads

\* recv_all lines 457-461 for the whole local buffer, first reply first
RECURSIVE recv_all_buffer(_, _, _)
recv_all_buffer(ds, buf, t) ==
    IF buf = <<>> THEN ds
    ELSE recv_all_buffer(Comms_recv_all(ds, Head(buf).data, t), Tail(buf), t)

\* recv_all lines 457-468: the replies are matched; the loop, or the next call
\* of recv_all, takes the lock again
MainMatch ==
    /\ pc.main = "match"
    /\ dest' = recv_all_buffer(dest, local, now)
    /\ delivered' = delivered \o local
    /\ local' = <<>>
    /\ pc' = [pc EXCEPT !.main = "lock"]
    /\ UNCHANGED <<buffer, since_sync, readbuf, mutex, arrived, contended>>
    /\ UNCHANGED outside_threads

RxPacketStep ==
    \E seqn \in U16Draws, ident \in U16Draws, dt \in 0..SyncTime :
        RxPacket(seqn, ident, dt)

\* The next step of the receiver thread; it has one in every state
RxStep ==
    \/ RxPacketStep
    \/ RxTimeout
    \/ RxNotYet
    \/ RxTryLockOk
    \/ RxTryLockBusy
    \/ RxAppend
    \/ RxRelease

\* The next step of the main thread in recv_all; lock() waits for the Mutex
MainStep ==
    \/ MainLock
    \/ MainDrain
    \/ MainDrop
    \/ MainMatch

\* One destination has been added and nothing sent yet: the first recv_all of
\* the main loop, which comes before the first send_all
InitThreads ==
    /\ config = [forget_inflight |-> MaxForget, forget_recv |-> MaxForget, forget_lost |-> MaxForget]
    /\ dest = <<Destination_new(1, 0, 0)>>
    /\ now = 0
    /\ last_refresh = 0 - (CliRefresh + 1)
    /\ op = NoOp
    /\ RestInit

NextThreads ==
    \/ RxPacketStep
    \/ RxTimeout
    \/ RxNotYet
    \/ RxTryLockOk
    \/ RxTryLockBusy
    \/ RxAppend
    \/ RxRelease
    \/ MainLock
    \/ MainDrain
    \/ MainDrop
    \/ MainMatch

SpecThreads == InitThreads /\ [][NextThreads]_vars

\* Both threads are scheduled again and again, and a thread waiting in lock()
\* gets the Mutex if it is free again and again.
SpecThreadsFair == SpecThreads /\ WF_vars(RxStep) /\ SF_vars(MainStep)

\* ------------------------------------------------------- main.rs, the loop
\* icmp.rs line 113 inside Destination::send (transport.rs line 219): both early
\* returns are passed, tx.send_to returns Err and unwrap() panics; the panic
\* unwinds through send, send_all and main
SendPanics(d, min_delay, rnd_num) ==
    /\ ~aborted
    /\ d \in DOMAIN dest
    /\ ~send_refused(dest[d], min_delay, rnd_num, now)
    /\ aborted' = TRUE
    /\ op' = [kind |-> "send", d |-> d, packet |-> None, why |-> "send_to Err", n |-> 0]
    /\ UNCHANGED <<config, dest, now, last_refresh, udp_ok, udp_attempted>>
    /\ UNCHANGED outside_loop

\* main.rs lines 195-209: the loop over cli_stats.  outcomes[i] is what
\* socket.send_to answers for the i-th datagram if it is called; `ok` is udp_ok
\* on entry to round i.  `&&` calls send_to only when udp_ok is still true.
RECURSIVE udp_send_stats(_, _, _)
udp_send_stats(outcomes, i, ok) ==
    IF i > Len(outcomes)
    THEN [attempted |-> <<>>, udp_ok |-> ok]
    ELSE LET rest == udp_send_stats(outcomes, i + 1, ok /\ outcomes[i])
         IN  [attempted |-> <<ok>> \o rest.attempted, udp_ok |-> rest.udp_ok]

\* main.rs lines 133-250, one refresh: last_refresh, cleanup, one CLIStats per
\* destination, the datagrams (encode_stats into a Vec does not fail)
MainRefresh(outcomes) ==
    /\ ~aborted
    /\ dest # <<>>
    /\ now - last_refresh > CliRefresh
    /\ last_refresh' = now
    /\ dest' = [d \in DOMAIN dest |-> Destination_cleanup(dest[d], config, now)]
    /\ udp_attempted' = udp_send_stats(outcomes, 1, TRUE).attempted
    /\ udp_ok' = udp_send_stats(outcomes, 1, TRUE).udp_ok
    /\ op' = [NoOp EXCEPT !.kind = "refresh"]
    /\ UNCHANGED <<config, now, aborted>>
    /\ UNCHANGED outside_loop

\* main.rs lines 115-122: the targets are added before the loop starts
LoopAdd ==
    /\ ~aborted
    /\ total_sent(dest) = 0
    /\ last_refresh < 0
    /\ AddStep

\* send_all: Destination::send on a destination
LoopSend == ~aborted /\ SendStep

LoopSendPanics ==
    \E d \in DOMAIN dest, rnd_num \in RndDraws :
        \E min_delay \in MinDelays(dest[d]) : SendPanics(d, min_delay, rnd_num)

LoopRefresh == \E outcomes \in [DOMAIN dest -> BOOLEAN] : MainRefresh(outcomes)

NextLoop ==
    \/ Tick
    \/ LoopAdd
    \/ LoopSend
    \/ LoopSendPanics
    \/ LoopRefresh

SpecLoop == Init /\ [][NextLoop]_vars

\* ------------------------------------------------------------ wide integers
\* An unsigned integer of 16 * k bits is a sequence of k limbs, lowest first.
widen(x, k) == [i \in 1..k |-> IF i <= Len(x) THEN x[i] ELSE 0]

\* x * k + carry at the width of x (wrapping), 0 <= k, carry < 2^15
RECURSIVE mul_small(_, _, _)
mul_small(x, k, carry) ==
    IF x = <<>> THEN <<>>
    ELSE LET p == x[1] * k + carry
         IN  <<p % U16>> \o mul_small(Tail(x), k, p \div U16)

\* x + a at the width of x, 0 <= a < 2^30
add_small(x, a) == mul_small(x, 1, a)

\* x fits k limbs
fits(x, k) == \A i \in DOMAIN x : i > k => x[i] = 0

\* `x as u16`, `x as u32` on unsigned integers: the low bits
as_u16(x) == SubSeq(x, 1, 1)
as_u32(x) == SubSeq(x, 1, 2)

\* The u32 with value n, 0 <= n < 2^31
u32_of(n) == <<n % U16, n \div U16>>

\* std::time::Duration: secs is a u64 (4 limbs), nanos < 10^9
Duration(secs, nanos) == [secs |-> secs, nanos |-> nanos]
\* Duration::as_micros, a u128
Duration_as_micros(d) ==
    add_small(mul_small(mul_small(widen(d.secs, 8), 1000, 0), 1000, 0), d.nanos \div 1000)
\* Duration::as_millis, a u128
Duration_as_millis(d) ==
    add_small(mul_small(widen(d.secs, 8), 1000, 0), d.nanos \div 1000000)

\* -------------------------------------------------------------- IpAddr
\* Display of an integer in decimal and in lower-case hexadecimal, as ASCII
RECURSIVE dec_str(_)
dec_str(n) == IF n < 10 THEN <<48 + n>> ELSE dec_str(n \div 10) \o <<48 + (n % 10)>>
hex_digit(d) == IF d < 10 THEN 48 + d ELSE 87 + d
RECURSIVE hex_str(_)
hex_str(n) == IF n < 16 THEN <<hex_digit(n)>> ELSE hex_str(n \div 16) \o <<hex_digit(n % 16)>>

RECURSIVE join(_, _)
join(parts, sep) ==
    IF Len(parts) = 1 THEN parts[1]
    ELSE parts[1] \o <<sep>> \o join(Tail(parts), sep)

\* IpAddr::to_string: dotted decimal for V4; for a V6 address without a zero
\* segment, the eight segments in hexadecimal
IpAddr_to_string(addr) ==
    IF addr.v = 4
    THEN join([i \in 1..4 |-> dec_str(addr.a[i])], 46)
    ELSE join([i \in 1..8 |-> hex_str(addr.a[i])], 58)

\* ---------------------------------------------------------------- rmp
\* A limb in network byte order
be16(l) == <<l \div 256, l % 256>>

\* rmp::encode::write_array_len for len < 16: fixarray
write_array_len(len) == <<144 + len>>
\* rmp::encode::write_str: fixstr below 32 bytes, str8 below 256
write_str(str) ==
    IF Len(str) < 32 THEN <<160 + Len(str)>> \o str
    ELSE <<217, Len(str)>> \o str
\* rmp::encode::write_u16: marker 0xcd and two bytes
write_u16(x) == <<205>> \o be16(x[1])
\* rmp::encode::write_u32: marker 0xce and four bytes
write_u32(x) == <<206>> \o be16(x[2]) \o be16(x[1])

\* Results of the readers: Ok(val) with the rest of the input, or Err
Ok(val, rest) == [ok |-> TRUE, val |-> val, rest |-> rest]
Err == [ok |-> FALSE]
Drop(b, k) == SubSeq(b, k + 1, Len(b))

\* rmp::decode::read_array_len: fixarray, or array16 with its length
read_array_len(b) ==
    IF b = <<>> THEN Err
    ELSE IF b[1] >= 144 /\ b[1] <= 159 THEN Ok(b[1] - 144, Drop(b, 1))
    ELSE IF b[1] = 220 /\ Len(b) >= 3 /\ b[2] < 128 THEN Ok(b[2] * 256 + b[3], Drop(b, 3))
    ELSE Err
\* rmp::decode::read_str: fixstr or str8, then that many bytes
read_str(b) ==
    IF b = <<>> THEN Err
    ELSE IF b[1] >= 160 /\ b[1] <= 191
         THEN IF Len(b) >= 1 + (b[1] - 160)
              THEN Ok(SubSeq(b, 2, 1 + (b[1] - 160)), Drop(b, 1 + (b[1] - 160)))
              ELSE Err
    ELSE IF b[1] = 217 /\ Len(b) >= 2
         THEN IF Len(b) >= 2 + b[2]
              THEN Ok(SubSeq(b, 3, 2 + b[2]), Drop(b, 2 + b[2]))
              ELSE Err
    ELSE Err
\* rmp::decode::read_u16: the marker must be 0xcd
read_u16(b) ==
    IF Len(b) >= 3 /\ b[1] = 205 THEN Ok(<<b[2] * 256 + b[3]>>, Drop(b, 3)) ELSE Err
\* rmp::decode::read_u32: the marker must be 0xce
read_u32(b) ==
    IF Len(b) >= 5 /\ b[1] = 206
    THEN Ok(<<b[4] * 256 + b[5], b[2] * 256 + b[3]>>, Drop(b, 5))
    ELSE Err

\* ------------------------------------------------------------ FrameStats
\* `(packet_loss * 1000.0) as u32`; packet_loss is a count of sixteenths of a
\* percent (exact in f32, as is its product with 1000), the cast truncates
packet_loss_x1000(loss16) == u32_of((loss16 * 1000) \div 16)

\* encode_stats lines 47-53: the FrameStats struct
FrameStats(c) ==
    [ addr_str |-> IpAddr_to_string(c.addr),
      inflight_count |-> c.inflight_count,
      avg_time_us |-> Duration_as_micros(c.avg_time),
      last_pckt_ms |-> Duration_as_millis(c.last_pckt_received),
      packet_loss_x100_000 |-> packet_loss_x1000(c.packet_loss) ]

\* Faulty variant of FrameStats_encode: last_pckt_ms is written before avg_time_us.
FrameStats_encode_swapped(stat) ==
    write_array_len(5)
        \o write_str(stat.addr_str)
        \o write_u16(as_u16(stat.inflight_count))
        \o write_u32(as_u32(stat.last_pckt_ms))
        \o write_u32(as_u32(stat.avg_time_us))
        \o write_u32(stat.packet_loss_x100_000)

\* FrameStats::encode into a Vec<u8>
FrameStats_encode(stat) ==
    write_array_len(5)
        \o write_str(stat.addr_str)
        \o write_u16(as_u16(stat.inflight_count))
        \o write_u32(as_u32(stat.avg_time_us))
        \o write_u32(as_u32(stat.last_pckt_ms))
        \o write_u32(stat.packet_loss_x100_000)

\* FrameStats::encode_stats
FrameStats_encode_stats(c) == FrameStats_encode(FrameStats(c))

\* UdpStats::from_buf: Ok(UdpStats) or Err
UdpStats_from_buf(v) ==
    LET len == read_array_len(v) IN
    IF ~len.ok \/ len.val # 5 THEN Err ELSE
    LET addr == read_str(len.rest) IN
    IF ~addr.ok THEN Err ELSE
    LET inflight_count == read_u16(addr.rest) IN
    IF ~inflight_count.ok THEN Err ELSE
    LET avg_time_us == read_u32(inflight_count.rest) IN
    IF ~avg_time_us.ok THEN Err ELSE
    LET last_pckt_ms == read_u32(avg_time_us.rest) IN
    IF ~last_pckt_ms.ok THEN Err ELSE
    LET packet_loss_x100_000 == read_u32(last_pckt_ms.rest) IN
    IF ~packet_loss_x100_000.ok THEN Err ELSE
    [ ok |-> TRUE,
      addr |-> addr.val,
      inflight_count |-> inflight_count.val,
      avg_time_us |-> avg_time_us.val,
      last_pckt_ms |-> last_pckt_ms.val,
      packet_loss_x100_000 |-> packet_loss_x100_000.val ]

\* The arguments tried: addresses of both families (the V6 one is longer than a
\* fixstr), counts and durations on both sides of the widths of the fields
AddrDraws ==
    { [v |-> 4, a |-> <<0, 0, 0, 0>>],
      [v |-> 4, a |-> <<192, 168, 10, 255>>],
      [v |-> 6, a |-> <<8193, 3512, 4369, 8738, 13107, 17476, 21845, 26214>>] }
InflightDraws ==
    { <<0, 0, 0, 0>>, <<3, 0, 0, 0>>, <<65535, 0, 0, 0>>, <<0, 1, 0, 0>>, <<2, 1, 0, 0>> }
DurationDraws ==
    { Duration(<<0, 0, 0, 0>>, 0),
      Duration(<<0, 0, 0, 0>>, 1500999),
      Duration(<<4294, 0, 0, 0>>, 967295999),
      Duration(<<4294, 0, 0, 0>>, 967296000),
      Duration(<<35127, 65, 0, 0>>, 295999999),
      Duration(<<35127, 65, 0, 0>>, 296000000) }
LossDraws == {0, 7, 1600}

CLIStats ==
    [ addr : AddrDraws, inflight_count : InflightDraws, avg_time : DurationDraws,
      last_pckt_received : DurationDraws, packet_loss : LossDraws ]

InitStats ==
    /\ config = [forget_inflight |-> MaxForget, forget_recv |-> MaxForget, forget_lost |-> MaxForget]
    /\ dest = <<>>
    /\ now = 0
    /\ last_refresh = 0 - (CliRefresh + 1)
    /\ op = NoOp
    /\ ThreadsInit
    /\ LoopInit
    /\ PercentilesIdle
    /\ CodecIdle
    /\ cli_stat \in { Some(c) : c \in CLIStats }
    /\ msg = None
    /\ udp_stats = None
    /\ HeaderIdle
    /\ IterIdle
    /\ FoldIdle
    /\ HuffIdle
    /\ DrawIdle
    /\ RoundIdle
    /\ CompositeIdle
    /\ RaceIdle
    /\ PaceIdle
    /\ LogIdle

\* main.rs lines 197-206: the daemon builds the datagram
EncodeStats ==
    /\ msg = None
    /\ msg' = Some(FrameStats_encode_stats(unwrap(cli_stat)))
    /\ UNCHANGED <<cli_stat, udp_stats>>
    /\ UNCHANGED outside_stats

\* the GUI parses the datagram it received
FromBuf ==
    /\ msg # None
    /\ udp_stats = None
    /\ udp_stats' = Some(UdpStats_from_buf(unwrap(msg)))
    /\ UNCHANGED <<cli_stat, msg>>
    /\ UNCHANGED outside_stats

NextStats ==
    \/ EncodeStats
    \/ FromBuf

SpecStats == InitStats /\ [][NextStats]_vars

\* ------------------------------------------- FrameDataQ::compute_percentiles
\* The number of binary digits of n >= 0
RECURSIVE bitlen(_)
bitlen(n) == IF n = 0 THEN 0 ELSE 1 + bitlen(n \div 2)
RECURSIVE pow2(_)
pow2(k) == IF k = 0 THEN 1 ELSE 2 * pow2(k - 1)

\* The f32 nearest to x >= 0, ties to the even significand.  Scaling by a power
\* of two does not change the rounding, so x may count units or eighths.
f32_round(x) ==
    IF bitlen(x) <= F32Digits THEN x
    ELSE LET u == pow2(bitlen(x) - F32Digits)
             q == x \div u
             r == x % u
         IN  IF 2 * r < u THEN q * u
             ELSE IF 2 * r > u THEN (q + 1) * u
             ELSE IF q % 2 = 0 THEN q * u
             ELSE (q + 1) * u

\* line 126: the percentiles, in eighths
PercentileEighths == <<0, 1, 2, 4, 6, 7, 8>>

\* lines 128-137, one percentile; p8, fl8, fr8 count eighths
percentile_value(v, k8) ==
    LET vmax == Len(v) - 1
        p8 == f32_round(k8 * f32_round(vmax))
        pl == p8 \div 8
        pr == (p8 + 7) \div 8
        fr8 == p8 - 8 * pl
        fl8 == 8 - fr8
        sum8 == f32_round(f32_round(f32_round(v[pl + 1]) * fl8)
                            + f32_round(f32_round(v[pr + 1]) * fr8))
    IN  IF pl = pr THEN v[pl + 1]
        ELSE (sum8 + 4) \div 8

\* compute_percentiles
compute_percentiles(v) ==
    IF v = <<>> THEN [i \in 1..7 |-> 0 - 1]
    ELSE [i \in 1..7 |-> percentile_value(v, PercentileEighths[i])]

\* Round-trip times in microseconds, small ones, two above 2^23, one above 2^24
SampleDraws == {0, 1, 37, 1000, 8388602, 8388603, 16777217}

\* The ascending slices of at most MaxSamples round-trip times
RECURSIVE SortedSamples(_)
SortedSamples(n) ==
    IF n = 0 THEN { <<>> }
    ELSE LET shorter == SortedSamples(n - 1)
         IN  shorter \cup { Append(q, x) : q \in { r \in shorter : Len(r) = n - 1 },
                                            x \in SampleDraws }

IsSorted(q) == \A i, j \in DOMAIN q : i < j => q[i] <= q[j]

InitPercentiles ==
    /\ config = [forget_inflight |-> MaxForget, forget_recv |-> MaxForget, forget_lost |-> MaxForget]
    /\ dest = <<>>
    /\ now = 0
    /\ last_refresh = 0 - (CliRefresh + 1)
    /\ op = NoOp
    /\ ThreadsInit
    /\ LoopInit
    /\ StatsIdle
    /\ CodecIdle
    /\ samples \in { q \in SortedSamples(MaxSamples) : IsSorted(q) }
    /\ percentiles = None
    /\ HeaderIdle
    /\ IterIdle
    /\ FoldIdle
    /\ HuffIdle
    /\ DrawIdle
    /\ RoundIdle
    /\ CompositeIdle
    /\ RaceIdle
    /\ PaceIdle
    /\ LogIdle

\* from_framedata line 106, fold_vec: the percentiles of a sorted slice
ComputePercentiles ==
    /\ percentiles = None
    /\ percentiles' = Some(compute_percentiles(samples))
    /\ UNCHANGED samples
    /\ UNCHANGED outside_percentiles

NextPercentiles == ComputePercentiles

SpecPercentiles == InitPercentiles /\ [][NextPercentiles]_vars

\* ------------------------------------------------- rmp, integers of any size
\* The k low bytes of n >= 0, in network byte order
RECURSIVE be_bytes(_, _)
be_bytes(n, k) == IF k = 0 THEN <<>> ELSE Append(be_bytes(n \div 256, k - 1), n % 256)
\* The number that bytes in network byte order spell
RECURSIVE from_be(_)
from_be(b) == IF b = <<>> THEN 0 ELSE from_be(SubSeq(b, 1, Len(b) - 1)) * 256 + b[Len(b)]

\* rmp::encode::write_uint: the shortest of positive fixint, u8, u16, u32.
\* (The u64 form starts at 2^32, beyond the integers of this model.)
write_uint(val) ==
    IF val < 128 THEN <<val>>
    ELSE IF val < 256 THEN <<204, val>>
    ELSE IF val < 65536 THEN <<205>> \o be_bytes(val, 2)
    ELSE <<206>> \o be_bytes(val, 4)
\* rmp::encode::write_nfix: negative fixint, -32..-1
write_nfix(val) == <<256 + val>>
\* rmp::encode::write_sint: the shortest of negative fixint, i8, i16, i32 in
\* two's complement; a value that is not negative is written as by write_uint
write_sint(val) ==
    IF val >= 0 THEN write_uint(val)
    ELSE IF val >= 0 - 32 THEN write_nfix(val)
    ELSE IF val >= 0 - 128 THEN <<208, 256 + val>>
    ELSE IF val >= 0 - 32768 THEN <<209>> \o be_bytes(65536 + val, 2)
    ELSE LET low == (val + 2147483647) + 1
         IN  <<210, 128 + (low \div 16777216)>> \o be_bytes(low % 16777216, 3)
\* rmp::encode::write_nil
write_nil == <<192>>

\* rmp::decode::read_int into a signed type, and dynrmp::read_int behind
\* Variant::read: the integer under any of the integer markers
read_int(b) ==
    IF b = <<>> THEN Err
    ELSE IF b[1] < 128 THEN Ok(b[1], Drop(b, 1))
    ELSE IF b[1] >= 224 THEN Ok(b[1] - 256, Drop(b, 1))
    ELSE IF b[1] = 204 /\ Len(b) >= 2 THEN Ok(b[2], Drop(b, 2))
    ELSE IF b[1] = 205 /\ Len(b) >= 3 THEN Ok(from_be(SubSeq(b, 2, 3)), Drop(b, 3))
    ELSE IF b[1] = 206 /\ Len(b) >= 5 THEN Ok(from_be(SubSeq(b, 2, 5)), Drop(b, 5))
    ELSE IF b[1] = 208 /\ Len(b) >= 2
         THEN Ok(IF b[2] < 128 THEN b[2] ELSE b[2] - 256, Drop(b, 2))
    ELSE IF b[1] = 209 /\ Len(b) >= 3
         THEN Ok(IF b[2] < 128 THEN from_be(SubSeq(b, 2, 3))
                 ELSE from_be(SubSeq(b, 2, 3)) - 65536, Drop(b, 3))
    ELSE IF b[1] = 210 /\ Len(b) >= 5
         THEN Ok(IF b[2] < 128 THEN from_be(SubSeq(b, 2, 5))
                 ELSE (from_be(<<b[2] - 128>> \o SubSeq(b, 3, 5)) - 2147483647) - 1,
                 Drop(b, 5))
    ELSE Err
\* rmp::decode::read_int::<usize>: a negative integer is out of range
read_int_usize(b) ==
    LET r == read_int(b)
    IN  IF r.ok /\ r.val >= 0 THEN r ELSE Err
\* dynrmp::read_array: the length, then that many Variants; those of a frame
\* are integers (Variant::int fails on any other)
RECURSIVE read_ints(_, _)
read_ints(b, n) ==
    IF n = 0 THEN Ok(<<>>, b)
    ELSE LET r == read_int(b)
         IN  IF ~r.ok THEN Err
             ELSE LET more == read_ints(r.rest, n - 1)
                  IN  IF more.ok THEN Ok(<<r.val>> \o more.val, more.rest) ELSE Err
read_array(b) ==
    LET len == read_array_len(b)
    IN  IF len.ok THEN read_ints(len.rest, len.val) ELSE Err

\* ------------------------------------------------------------ FrameDataQ
\* SubSecType
Abs(v) == [type |-> "Abs", v |-> v]
Delta(v) == [type |-> "Delta", v |-> v]

\* f32::round of a count of halves that is not negative: half away from zero
round(h) == (h + 1) \div 2
\* `n as f32` for an integer n >= 0, as a count of halves
as_f32(n) == 2 * f32_round(n)

\* The sum of the first n entries of q
RECURSIVE prefix_sum(_, _)
prefix_sum(q, n) == IF n = 0 THEN 0 ELSE prefix_sum(q, n - 1) + q[n]
RECURSIVE flatten(_)
flatten(q) == IF q = <<>> THEN <<>> ELSE q[1] \o flatten(Tail(q))

\* RMPCodec::try_to_rmp of a FrameDataQ<Encoded>, lines 504-547
try_to_rmp(self) ==
    LET ts == IF is_none(self.timestamp) THEN write_nil
              ELSE write_uint(unwrap(self.timestamp))
        ifl == IF round(self.inflight) + round(self.lost_packets) > 0
               THEN write_uint(round(self.inflight)) \o write_uint(round(self.lost_packets))
               ELSE write_nfix(0 - 1)
        dvvec == [n \in 1..7 |-> self.recv_us[n] - (IF n = 1 THEN 0 ELSE self.recv_us[n - 1])]
        recv == IF self.recv_us_len > 0
                THEN write_array_len(7)
                     \o flatten([n \in 1..7 |-> IF dvvec[n] < 0 THEN write_sint(dvvec[n])
                                                ELSE write_uint(dvvec[n])])
                ELSE <<>>
    IN  ts \o write_uint(self.subsec_ms.v) \o ifl \o write_uint(self.recv_us_len) \o recv

\* XError::EOF, lines 550-561: the first byte of a frame could not be read
EOF == [ok |-> FALSE, eof |-> TRUE]

\* RMPCodec::try_from_rmp, lines 549-602: Ok(frame), EOF or another Err
try_from_rmp(rd) ==
    IF rd = <<>> THEN EOF
    ELSE
    LET ts_var == IF rd[1] = 192 THEN Ok(None, Drop(rd, 1))
                  ELSE LET r == read_int(rd)
                       IN  IF r.ok THEN Ok(Some(r.val), r.rest) ELSE Err
    IN  IF ~ts_var.ok THEN Err
    ELSE
    LET subsec_ms_v == read_int_usize(ts_var.rest)
    IN  IF ~subsec_ms_v.ok THEN Err
    ELSE
    LET ifl == read_int(subsec_ms_v.rest)
    IN  IF ~ifl.ok THEN Err
    ELSE
    LET lost == IF ifl.val = 0 - 1 THEN Ok(0, ifl.rest) ELSE read_int_usize(ifl.rest)
    IN  IF ~lost.ok THEN Err
    ELSE
    LET recv_us_len == read_int_usize(lost.rest)
    IN  IF ~recv_us_len.ok THEN Err
    ELSE
    LET recv_var == IF recv_us_len.val > 0 THEN read_array(recv_us_len.rest)
                    ELSE Ok(<<>>, recv_us_len.rest)
    IN  IF ~recv_var.ok \/ Len(recv_var.val) > 7 THEN Err
    ELSE Ok([ timestamp |-> ts_var.val,
              subsec_ms |-> IF is_none(ts_var.val) THEN Delta(subsec_ms_v.val)
                            ELSE Abs(subsec_ms_v.val),
              inflight |-> IF ifl.val = 0 - 1 THEN 0 ELSE as_f32(ifl.val),
              lost_packets |-> as_f32(lost.val),
              recv_us_len |-> recv_us_len.val,
              recv_us |-> [n \in 1..7 |-> IF n <= Len(recv_var.val)
                                          THEN prefix_sum(recv_var.val, n)
                                          ELSE 0 - 1] ],
            recv_var.rest)

\* ----------------------------------------------------- LinearLogQuantizer
(* The quantizer of recv_llq.  Its precision is held as its reciprocal, per:
   precision = 1 / per.  Magnitudes below per are kept (buckets of 1); above,
   the octave k from per * 2^k up to per * 2^(k + 1) is cut into per buckets
   of 2^k, and a bucket decodes to its middle.  Negative values mirror the
   positive ones. *)
RECURSIVE llq_octave(_, _)
llq_octave(per, a) == IF a < 2 * per THEN 0 ELSE 1 + llq_octave(per, a \div 2)

magnitude(x) == IF x < 0 THEN 0 - x ELSE x
signed(x, a) == IF x < 0 THEN 0 - a ELSE a

LinearLogQuantizer_encode(per, x) ==
    LET a == magnitude(x)
        k == llq_octave(per, a)
    IN  IF a < per THEN x
        ELSE signed(x, per + k * per + ((a - per * pow2(k)) \div pow2(k)))

LinearLogQuantizer_decode(per, c) ==
    LET a == magnitude(c)
        k == (a - per) \div per
        off == (a - per) % per
    IN  IF a < per THEN c
        ELSE signed(c, per * pow2(k) + off * pow2(k) + (pow2(k) \div 2))

\* ----------------------------------------------------------- FDCodecState
\* FDCodecState::push, lines 334-348
push(self, d) ==
    [ last_timestamp |-> IF is_none(d.timestamp) THEN self.last_timestamp ELSE d.timestamp,
      last_subsec_ms |-> IF d.subsec_ms.type = "Abs" THEN d.subsec_ms.v
                         ELSE self.last_subsec_ms + d.subsec_ms.v,
      last_recvq_0 |-> IF ~cfg.delta_enc THEN self.last_recvq_0
                       ELSE IF is_none(cfg.recv_llq) THEN d.recv_us[1]
                       ELSE LinearLogQuantizer_encode(unwrap(cfg.recv_llq), d.recv_us[1]) ]

\* lines 380-386: with a quantizer, the values of a frame that has any
encode_recv_us(self, d) ==
    IF is_none(cfg.recv_llq) \/ d.recv_us_len = 0 THEN d.recv_us
    ELSE [n \in 1..7 |-> LinearLogQuantizer_encode(unwrap(cfg.recv_llq), d.recv_us[n])
                           - self.last_recvq_0]

\* lines 406-412
decode_recv_us(self, d) ==
    IF is_none(cfg.recv_llq) \/ d.recv_us_len = 0 THEN d.recv_us
    ELSE [n \in 1..7 |-> LinearLogQuantizer_decode(unwrap(cfg.recv_llq), d.recv_us[n])]

\* FDCodecState::peek_encode, lines 349-388
peek_encode(self, d) ==
    LET subsec_ms == IF d.subsec_ms.type = "Abs" THEN d.subsec_ms.v
                     ELSE self.last_subsec_ms + d.subsec_ms.v
        subsec_ms_part == subsec_ms % 1000
        d_ts == unwrap(d.timestamp) + ((subsec_ms - subsec_ms_part) \div 1000)
        full == \/ is_none(self.last_timestamp)
                \/ d_ts - unwrap(self.last_timestamp) >= cfg.full_encode_secs
                \/ d_ts < unwrap(self.last_timestamp)
    IN  IF full
        THEN [d EXCEPT !.timestamp = Some(d_ts), !.subsec_ms = Abs(subsec_ms_part),
                       !.recv_us = encode_recv_us(self, d)]
        ELSE [d EXCEPT !.timestamp = None,
                       !.subsec_ms = Delta(((d_ts - unwrap(self.last_timestamp)) * 1000
                                            + subsec_ms_part) - self.last_subsec_ms),
                       !.recv_us = encode_recv_us(self, d)]

\* FDCodecState::peek_decode, lines 396-415
peek_decode(self, d) ==
    LET ts == IF is_none(d.timestamp) THEN unwrap(self.last_timestamp)
              ELSE unwrap(d.timestamp)
        subsec_ms == IF d.subsec_ms.type = "Abs" THEN d.subsec_ms.v
                     ELSE d.subsec_ms.v + self.last_subsec_ms
        subsec_ms_part == subsec_ms % 1000
    IN  [d EXCEPT !.timestamp = Some(ts + ((subsec_ms - subsec_ms_part) \div 1000)),
                  !.subsec_ms = Abs(subsec_ms_part),
                  !.recv_us = decode_recv_us(self, d)]

\* The frames of the runs: what from_framedata and fold_vec build.
\* Unix seconds
TimestampDraws == {5, 6, 7, 1600000000}
\* Milliseconds within the second
SubsecDraws == {0, 999}
\* inflight and lost_packets in halves: 0, 0.5 and 1 in flight, 0 and 1 lost
InflightHalves == {0, 1, 2}
LostHalves == {0, 2}
\* The round-trip times of a frame, sorted
RecvDraws == { <<>>, <<1000>>, <<0, 1000>>, <<8388602, 8388603>> }

FrameDataQ ==
    { [ timestamp |-> Some(ts), subsec_ms |-> Abs(ms), inflight |-> i, lost_packets |-> l,
        recv_us_len |-> Len(v), recv_us |-> compute_percentiles(v) ] :
      ts \in TimestampDraws, ms \in SubsecDraws, i \in InflightHalves, l \in LostHalves,
      v \in RecvDraws }

\* get_timestamp_ms(a) <= get_timestamp_ms(b), lines 115-119, for subsec_ms
\* below 1000: seconds first, then milliseconds
not_later(a, b) ==
    \/ unwrap(a.timestamp) < unwrap(b.timestamp)
    \/ /\ unwrap(a.timestamp) = unwrap(b.timestamp)
       /\ a.subsec_ms.v <= b.subsec_ms.v

\* FDCodecState::new(cfg) twice, for a writer and a reader
InitCodec ==
    /\ config = [forget_inflight |-> MaxForget, forget_recv |-> MaxForget, forget_lost |-> MaxForget]
    /\ dest = <<>>
    /\ now = 0
    /\ last_refresh = 0 - (CliRefresh + 1)
    /\ op = NoOp
    /\ ThreadsInit
    /\ LoopInit
    /\ StatsIdle
    /\ PercentilesIdle
    /\ cfg \in [full_encode_secs : 1..MaxFullEncodeSecs, recv_llq : {None}, delta_enc : BOOLEAN]
    /\ encoder = [last_timestamp |-> None, last_subsec_ms |-> 0, last_recvq_0 |-> 0]
    /\ decoder = [last_timestamp |-> None, last_subsec_ms |-> 0, last_recvq_0 |-> 0]
    /\ frame = None
    /\ rmp = None
    /\ decoded = None
    /\ keyframe = None
    /\ HeaderIdle
    /\ IterIdle
    /\ FoldIdle
    /\ HuffIdle
    /\ DrawIdle
    /\ RoundIdle
    /\ CompositeIdle
    /\ RaceIdle
    /\ PaceIdle
    /\ LogIdle

\* fdqread.rs lines 76-77: codec.encode(fdq), then fdq.to_rmp().  The frames
\* of a file come in the order of their time.
Encode(d) ==
    /\ rmp = None
    /\ frame # None => not_later(unwrap(frame), d)
    /\ frame' = Some(d)
    /\ rmp' = Some(try_to_rmp(peek_encode(encoder, d)))
    /\ encoder' = push(encoder, d)
    /\ decoded' = None
    /\ keyframe' = IF is_none(peek_encode(encoder, d).timestamp) THEN keyframe
                   ELSE peek_encode(encoder, d).timestamp
    /\ UNCHANGED <<cfg, decoder>>
    /\ UNCHANGED outside_codec

\* FDCodecIter: try_from_rmp, then codec.decode
Decode ==
    /\ rmp # None
    /\ LET parsed == try_from_rmp(unwrap(rmp))
       IN  IF parsed.ok
           THEN /\ decoded' = Some(peek_decode(decoder, parsed.val))
                /\ decoder' = push(decoder, peek_decode(decoder, parsed.val))
           ELSE /\ decoded' = Some(Err)
                /\ UNCHANGED decoder
    /\ rmp' = None
    /\ UNCHANGED <<cfg, encoder, frame, keyframe>>
    /\ UNCHANGED outside_codec

NextCodec ==
    \/ \E d \in FrameDataQ : Encode(d)
    \/ Decode

SpecCodec == InitCodec /\ [][NextCodec]_vars

\* The precisions of the runs with a quantizer: 1/4 and 1/16
PrecisionDraws == {4, 16}

\* fdqread.rs lines 56-63 with --quantize: both codecs share the quantizer
InitCodecLLQ ==
    /\ config = [forget_inflight |-> MaxForget, forget_recv |-> MaxForget, forget_lost |-> MaxForget]
    /\ dest = <<>>
    /\ now = 0
    /\ last_refresh = 0 - (CliRefresh + 1)
    /\ op = NoOp
    /\ ThreadsInit
    /\ LoopInit
    /\ StatsIdle
    /\ PercentilesIdle
    /\ cfg \in [full_encode_secs : 1..MaxFullEncodeSecs,
                 recv_llq : { Some(per) : per \in PrecisionDraws }, delta_enc : BOOLEAN]
    /\ encoder = [last_timestamp |-> None, last_subsec_ms |-> 0, last_recvq_0 |-> 0]
    /\ decoder = [last_timestamp |-> None, last_subsec_ms |-> 0, last_recvq_0 |-> 0]
    /\ frame = None
    /\ rmp = None
    /\ decoded = None
    /\ keyframe = None
    /\ HeaderIdle
    /\ IterIdle
    /\ FoldIdle
    /\ HuffIdle
    /\ DrawIdle
    /\ RoundIdle
    /\ CompositeIdle
    /\ RaceIdle
    /\ PaceIdle
    /\ LogIdle

SpecCodecLLQ == InitCodecLLQ /\ [][NextCodec]_vars

\* ------------------------------------------------------ the file header
\* Strings are the sequences of their bytes.
\* "FDCodec"
HEADER_SCHEMA == <<70, 68, 67, 111, 100, 101, 99>>
HEADER_VERSION == 101
\* "schema", "version", "full_encode_secs", "recv_llq", "delta_enc"
schema_field == <<115, 99, 104, 101, 109, 97>>
version_field == <<118, 101, 114, 115, 105, 111, 110>>
full_encode_secs_field == <<102, 117, 108, 108, 95, 101, 110, 99, 111, 100, 101, 95, 115, 101, 99, 115>>
recv_llq_field == <<114, 101, 99, 118, 95, 108, 108, 113>>
delta_enc_field == <<100, 101, 108, 116, 97, 95, 101, 110, 99>>

\* rmp::encode::write_map_len for fewer than 16 entries: fixmap
write_map_len(len) == <<128 + len>>
\* rmp::encode::write_bool
write_bool(val) == IF val THEN <<195>> ELSE <<194>>
\* rmp::encode::write_f64 of the precision 1 / per, per a power of two: the
\* marker 0xcb, then sign 0, the exponent 1023 - log2(per) in 11 bits, and 52
\* zero bits of significand
write_f64(per) ==
    LET e == 1023 - (bitlen(per) - 1)
    IN  <<203, e \div 16, (e % 16) * 16, 0, 0, 0, 0, 0, 0>>

\* A header as try_get_header writes it, lines 261-284, for any schema and version
write_header(schema, version, c) ==
    write_map_len(5)
    \o write_str(schema_field) \o write_str(schema)
    \o write_str(version_field) \o write_uint(version)
    \o write_str(full_encode_secs_field) \o write_uint(c.full_encode_secs)
    \o write_str(recv_llq_field)
    \o (IF is_none(c.recv_llq) THEN write_nil ELSE write_f64(unwrap(c.recv_llq)))
    \o write_str(delta_enc_field) \o write_bool(c.delta_enc)

\* FDCodecState::try_get_header
try_get_header(c) == write_header(HEADER_SCHEMA, HEADER_VERSION, c)

\* Variant::read, variant.rs lines 141-172, for the markers of integers up to
\* 32 bits, nil, bool, f64, fixstr and str8, fixarray and fixmap.  A Map is
\* held as the sequence of its entries <<key, value>>, in the order read.
RECURSIVE Variant_read(_), read_variants(_, _)
Variant_read(b) ==
    IF b = <<>> THEN Err
    ELSE LET m == b[1]
         IN  IF m < 128 \/ m >= 224 \/ m \in {204, 205, 206, 208, 209, 210}
             THEN LET r == read_int(b)
                  IN  IF r.ok THEN Ok([t |-> "Integer", v |-> r.val], r.rest) ELSE Err
             ELSE IF m = 192 THEN Ok([t |-> "Null", v |-> 0], Drop(b, 1))
             ELSE IF m \in {194, 195} THEN Ok([t |-> "Bool", v |-> m = 195], Drop(b, 1))
             ELSE IF (m >= 160 /\ m <= 191) \/ m = 217
             THEN LET r == read_str(b)
                  IN  IF r.ok THEN Ok([t |-> "String", v |-> r.val], r.rest) ELSE Err
             ELSE IF m = 203
             THEN IF Len(b) >= 9 THEN Ok([t |-> "Float", v |-> SubSeq(b, 2, 9)], Drop(b, 9))
                  ELSE Err
             ELSE IF m >= 144 /\ m <= 159
             THEN LET r == read_variants(Drop(b, 1), m - 144)
                  IN  IF r.ok THEN Ok([t |-> "Array", v |-> r.val], r.rest) ELSE Err
             ELSE IF m >= 128 /\ m <= 143
             THEN LET r == read_variants(Drop(b, 1), 2 * (m - 128))
                  IN  IF r.ok
                      THEN Ok([t |-> "Map",
                               v |-> [i \in 1..(m - 128) |-> <<r.val[2 * i - 1], r.val[2 * i]>>]],
                              r.rest)
                      ELSE Err
             ELSE Err
\* read_array and read_map, mod.rs lines 140-148 and 188-197: n Variants in a row
read_variants(b, n) ==
    IF n = 0 THEN Ok(<<>>, b)
    ELSE LET r == Variant_read(b)
         IN  IF ~r.ok THEN Err
             ELSE LET more == read_variants(r.rest, n - 1)
                  IN  IF more.ok THEN Ok(<<r.val>> \o more.val, more.rest) ELSE Err

\* Float::as_f64 of a precision, as its reciprocal: the power of two that the
\* eight bytes spell (0 for any other number)
as_f64(bytes) ==
    LET e == bytes[1] * 16 + (bytes[2] \div 16)
    IN  IF bytes[1] < 128 /\ bytes[2] % 16 = 0 /\ SubSeq(bytes, 3, 8) = <<0, 0, 0, 0, 0, 0>>
           /\ e <= 1023 /\ e >= 1023 - 30
        THEN pow2(1023 - e)
        ELSE 0

\* header.get(field), line 287-291: the entry of the HashMap under the string
\* field (a later entry replaces an earlier one of the same key), or none
get_header(entries, field) ==
    LET at == { i \in DOMAIN entries :
                  entries[i][1].t = "String" /\ entries[i][1].v = field }
    IN  IF at = {} THEN None
        ELSE Some(entries[CHOOSE i \in at : \A j \in at : j <= i][2])

\* Faulty variant of version_supported: the reader's own version is refused.
version_below(version) == version >= 0 /\ version < HEADER_VERSION

\* lines 298-303: `as u64` makes a negative version a huge one
version_supported(version) == version >= 0 /\ version <= HEADER_VERSION

\* The main thread panics (Variant::as_bool on a value that is no Bool)
Panic == [ok |-> FALSE, panic |-> TRUE]

\* FDCodecState::try_from_header, lines 285-321
try_from_header(rd) ==
    LET hdr == Variant_read(rd)
    IN  IF ~hdr.ok THEN Err
        ELSE IF hdr.val.t # "Map" THEN Err
        ELSE IF \E i \in DOMAIN hdr.val.v : hdr.val.v[i][1].t # "String" THEN Err
        ELSE
        LET schema == get_header(hdr.val.v, schema_field)
            version == get_header(hdr.val.v, version_field)
            full_encode_secs == get_header(hdr.val.v, full_encode_secs_field)
            recv_llq == get_header(hdr.val.v, recv_llq_field)
            delta_enc == get_header(hdr.val.v, delta_enc_field)
        IN  IF is_none(schema) THEN Err
            ELSE IF unwrap(schema).t # "String" THEN Err
            ELSE IF unwrap(schema).v # HEADER_SCHEMA THEN Err
            ELSE IF is_none(version) THEN Err
            ELSE IF unwrap(version).t # "Integer" THEN Err
            ELSE IF ~version_supported(unwrap(version).v) THEN Err
            ELSE IF is_none(full_encode_secs) THEN Err
            ELSE IF unwrap(full_encode_secs).t # "Integer" THEN Err
            ELSE IF is_none(recv_llq) THEN Err
            ELSE IF is_none(delta_enc) THEN Err
            ELSE IF unwrap(delta_enc).t # "Bool" THEN Panic
            ELSE IF unwrap(recv_llq).t \notin {"Null", "Float"} THEN Err
            ELSE Ok([ full_encode_secs |-> unwrap(full_encode_secs).v,
                      recv_llq |-> IF unwrap(recv_llq).t = "Null" THEN None
                                   ELSE Some(as_f64(unwrap(recv_llq).v)),
                      delta_enc |-> unwrap(delta_enc).v ],
                    hdr.rest)

\* The schemas of the runs: "FDCodec", "FDCodex", "fdcodec" and the empty string
SchemaDraws == { HEADER_SCHEMA, <<70, 68, 67, 111, 100, 101, 120>>, <<102, 100, 99, 111, 100, 101, 99>>, <<>> }
\* The versions of the runs
VersionDraws == {0, 100, 101, 102, 300}
\* The configurations of the runs
FullEncodeSecsDraws == {1, 60, 300, 100000}
CfgDraws ==
    [ full_encode_secs : FullEncodeSecsDraws,
      recv_llq : {None} \cup { Some(per) : per \in PrecisionDraws },
      delta_enc : BOOLEAN ]

InitHeader ==
    /\ config = [forget_inflight |-> MaxForget, forget_recv |-> MaxForget, forget_lost |-> MaxForget]
    /\ dest = <<>>
    /\ now = 0
    /\ last_refresh = 0 - (CliRefresh + 1)
    /\ op = NoOp
    /\ ThreadsInit
    /\ LoopInit
    /\ StatsIdle
    /\ PercentilesIdle
    /\ CodecIdle
    /\ header_args \in { Some([schema |-> sc, version |-> ve, cfg |-> c]) :
                           sc \in SchemaDraws, ve \in VersionDraws, c \in CfgDraws }
    /\ header = None
    /\ header_cfg = None
    /\ IterIdle
    /\ FoldIdle
    /\ HuffIdle
    /\ DrawIdle
    /\ RoundIdle
    /\ CompositeIdle
    /\ RaceIdle
    /\ PaceIdle
    /\ LogIdle

\* A writer puts the header at the start of the file
GetHeader ==
    /\ header = None
    /\ header' = Some(write_header(unwrap(header_args).schema, unwrap(header_args).version,
                                   unwrap(header_args).cfg))
    /\ UNCHANGED <<header_args, header_cfg>>
    /\ UNCHANGED outside_header

\* FDCodecState::try_from_header on the bytes of the file
FromHeader ==
    /\ header # None
    /\ header_cfg = None
    /\ header_cfg' = Some(try_from_header(unwrap(header)))
    /\ UNCHANGED <<header_args, header>>
    /\ UNCHANGED outside_header

NextHeader ==
    \/ GetHeader
    \/ FromHeader

SpecHeader == InitHeader /\ [][NextHeader]_vars

\* ------------------------------------------------------------ FDCodecIter
\* The frames of the files
IterFrames ==
    { d \in FrameDataQ : /\ unwrap(d.timestamp) \in {5, 1600000000}
                         /\ d.subsec_ms.v = 0
                         /\ d.inflight \in {0, 2}
                         /\ d.lost_packets = 0
                         /\ d.recv_us_len \in {0, 2} }

\* The files: at most n frames in the order of their time
RECURSIVE FrameSeqs(_)
FrameSeqs(n) ==
    IF n = 0 THEN { <<>> }
    ELSE LET shorter == FrameSeqs(n - 1)
         IN  shorter \cup { Append(q, d) : q \in { r \in shorter : Len(r) = n - 1 },
                                            d \in IterFrames }
InOrder(q) == \A i \in 1..(Len(q) - 1) : not_later(q[i], q[i + 1])

\* fdqread.rs lines 72-79: codec.encode and to_rmp of each frame in turn; the
\* bytes of each frame
RECURSIVE encode_all(_, _)
encode_all(self, frames) ==
    IF frames = <<>> THEN <<>>
    ELSE <<try_to_rmp(peek_encode(self, Head(frames)))>>
         \o encode_all(push(self, Head(frames)), Tail(frames))

\* FDCodecState::new, lines 252-257
FDCodecState_new == [last_timestamp |-> None, last_subsec_ms |-> 0, last_recvq_0 |-> 0]

\* A file with its header, `whole` frames and the first `part` bytes of the next
file_bytes(c, frames, whole, part) ==
    LET recs == encode_all(FDCodecState_new, frames)
    IN  try_get_header(c) \o flatten(SubSeq(recs, 1, whole))
        \o (IF part = 0 THEN <<>> ELSE SubSeq(recs[whole + 1], 1, part))

\* The cuts of a file of these frames: after the last frame, or inside it
Cuts(frames) ==
    { [whole |-> Len(frames), part |-> 0] }
    \cup { [whole |-> Len(frames) - 1, part |-> k] :
             k \in 1..(IF frames = <<>> THEN 0
                       ELSE Len(encode_all(FDCodecState_new, frames)[Len(frames)]) - 1) }

InitIter ==
    /\ config = [forget_inflight |-> MaxForget, forget_recv |-> MaxForget, forget_lost |-> MaxForget]
    /\ dest = <<>>
    /\ now = 0
    /\ last_refresh = 0 - (CliRefresh + 1)
    /\ op = NoOp
    /\ ThreadsInit
    /\ LoopInit
    /\ StatsIdle
    /\ PercentilesIdle
    /\ HeaderIdle
    /\ cfg \in [full_encode_secs : 1..MaxFullEncodeSecs, recv_llq : {None}, delta_enc : BOOLEAN]
    /\ encoder = FDCodecState_new
    /\ decoder = FDCodecState_new
    /\ frame = None
    /\ rmp = None
    /\ decoded = None
    /\ keyframe = None
    /\ \E frames \in { q \in FrameSeqs(MaxRecords) : InOrder(q) } :
         \E cut \in Cuts(frames) :
            /\ file = Some([frames |-> SubSeq(frames, 1, cut.whole), partial |-> cut.part > 0])
            /\ iter_buf = file_bytes(cfg, frames, cut.whole, cut.part)
    /\ items = <<>>
    /\ iter = "new"
    /\ nones = 0
    /\ FoldIdle
    /\ HuffIdle
    /\ DrawIdle
    /\ RoundIdle
    /\ CompositeIdle
    /\ RaceIdle
    /\ PaceIdle
    /\ LogIdle

\* FDCodecIter::new, lines 610-615: new_from_header unwraps
FDCodecIter_new ==
    /\ iter = "new"
    /\ LET hdr == try_from_header(iter_buf)
       IN  IF hdr.ok
           THEN /\ cfg' = hdr.val
                /\ decoder' = FDCodecState_new
                /\ iter_buf' = hdr.rest
                /\ iter' = "open"
           ELSE /\ iter' = "panicked"
                /\ UNCHANGED <<cfg, decoder, iter_buf>>
    /\ UNCHANGED <<file, items, nones, encoder, frame, rmp, decoded, keyframe>>
    /\ UNCHANGED <<transport_vars, thread_vars, loop_vars, stats_vars, percentile_vars, header_vars, fold_vars, huff_vars, draw_vars, round_vars, composite_vars, race_vars, pace_vars, log_vars>>

\* Faulty variant of next_outcome: every failure ends the iteration.
next_outcome_lenient(rfde) == IF rfde.ok THEN "Some" ELSE "None"

\* FDCodecIter::next, lines 622-636: what a result of try_from_rmp leads to
next_outcome(rfde) ==
    IF rfde.ok THEN "Some"
    ELSE IF rfde = EOF THEN "None"
    ELSE "panic"

\* FDCodecIter::next, lines 620-638; it may be called again after a None
FDCodecIter_next ==
    /\ iter \in {"open", "ended"}
    /\ nones < 2
    /\ LET rfde == try_from_rmp(iter_buf)
           outcome == next_outcome(rfde)
       IN  IF outcome = "Some"
           THEN /\ items' = Append(items, peek_decode(decoder, rfde.val))
                /\ decoder' = push(decoder, peek_decode(decoder, rfde.val))
                /\ iter_buf' = rfde.rest
                /\ iter' = "open"
                /\ UNCHANGED nones
           ELSE IF outcome = "None"
           THEN /\ iter' = "ended"
                /\ nones' = nones + 1
                /\ UNCHANGED <<items, decoder, iter_buf>>
           ELSE /\ iter' = "panicked"
                /\ UNCHANGED <<items, decoder, iter_buf, nones>>
    /\ UNCHANGED <<file, cfg, encoder, frame, rmp, decoded, keyframe>>
    /\ UNCHANGED <<transport_vars, thread_vars, loop_vars, stats_vars, percentile_vars, header_vars, fold_vars, huff_vars, draw_vars, round_vars, composite_vars, race_vars, pace_vars, log_vars>>

NextIter ==
    \/ FDCodecIter_new
    \/ FDCodecIter_next

SpecIter == InitIter /\ [][NextIter]_vars

\* ---------------------------------------------------- FrameDataQ::fold_vec
\* iter().sum() of numbers
RECURSIVE sum(_)
sum(q) == IF q = <<>> THEN 0 ELSE Head(q) + sum(Tail(q))

\* lines 165-170: the percentiles of every frame that are not negative
RECURSIVE recv_us_valid(_)
recv_us_valid(frames) ==
    IF frames = <<>> THEN <<>>
    ELSE SelectSeq([i \in 1..7 |-> Head(frames).recv_us[i]], LAMBDA x : x >= 0)
         \o recv_us_valid(Tail(frames))

\* line 171, sort_unstable
RECURSIVE sort_unstable(_)
sort_unstable(q) ==
    IF q = <<>> THEN <<>>
    ELSE LET least == CHOOSE i \in DOMAIN q : \A j \in DOMAIN q : q[i] <= q[j]
         IN  <<q[least]>> \o sort_unstable(SubSeq(q, 1, least - 1) \o SubSeq(q, least + 1, Len(q)))

\* The whole part of the square root
sqrt_floor(x) == CHOOSE s \in 0..x : s * s <= x /\ (s + 1) * (s + 1) > x

\* The mean of the squares is a square, so that the f32 of line 162 is exact
SquareMean(frames) ==
    LET m == sum([i \in DOMAIN frames |-> frames[i].inflight * frames[i].inflight])
    IN  /\ m % Len(frames) = 0
        /\ sqrt_floor(m \div Len(frames)) * sqrt_floor(m \div Len(frames)) = m \div Len(frames)

\* lines 165-172
fold_vec_recv_us(frames) ==
    compute_percentiles(sort_unstable(recv_us_valid(frames)))

\* FrameDataQ::fold_vec, lines 153-204.  The mean of the timestamps is taken
\* with the seconds and the milliseconds apart: for seconds S = n*q + r and
\* milliseconds M, (1000*S + M) / n = 1000*q + (1000*r + M) / n.  inflight and
\* lost_packets are in halves.
fold_vec(frames) ==
    LET datalen == Len(frames)
        secs == sum([i \in DOMAIN frames |-> unwrap(frames[i].timestamp)])
        millis == sum([i \in DOMAIN frames |-> frames[i].subsec_ms.v])
        below == (1000 * (secs % datalen) + millis) \div datalen
        mean_sq == sum([i \in DOMAIN frames |-> frames[i].inflight * frames[i].inflight]) \div datalen
    IN  [ timestamp |-> Some(secs \div datalen + below \div 1000),
          subsec_ms |-> Abs(below % 1000),
          inflight |-> sqrt_floor(mean_sq),
          lost_packets |-> sum([i \in DOMAIN frames |-> frames[i].lost_packets]) \div datalen,
          recv_us_len |-> sum([i \in DOMAIN frames |-> frames[i].recv_us_len]) \div datalen,
          recv_us |-> fold_vec_recv_us(frames) ]

\* The frames fold_vec is given: whole counts, and seconds that add up in 31 bits
FoldFrames ==
    { d \in FrameDataQ : /\ d.inflight % 2 = 0
                         /\ d.lost_packets % 2 = 0
                         /\ unwrap(d.timestamp) # 7 }

RECURSIVE FoldSlices(_)
FoldSlices(n) ==
    IF n = 1 THEN { <<d>> : d \in FoldFrames }
    ELSE LET shorter == FoldSlices(n - 1)
         IN  shorter \cup { Append(q, d) : q \in { r \in shorter : Len(r) = n - 1 },
                                            d \in FoldFrames }

InitFold ==
    /\ config = [forget_inflight |-> MaxForget, forget_recv |-> MaxForget, forget_lost |-> MaxForget]
    /\ dest = <<>>
    /\ now = 0
    /\ last_refresh = 0 - (CliRefresh + 1)
    /\ op = NoOp
    /\ ThreadsInit
    /\ LoopInit
    /\ StatsIdle
    /\ PercentilesIdle
    /\ CodecIdle
    /\ HeaderIdle
    /\ IterIdle
    /\ data \in { q \in FoldSlices(MaxFold) :
                    /\ SquareMean(q)
                    /\ Len(q) > 1 => \A i \in DOMAIN q : unwrap(q[i].timestamp) < 1000000000 }
    /\ folded = None
    /\ HuffIdle
    /\ DrawIdle
    /\ RoundIdle
    /\ CompositeIdle
    /\ RaceIdle
    /\ PaceIdle
    /\ LogIdle

\* FDCodecIterFold::next, line 690: fold_vec of a window
FoldVec ==
    /\ folded = None
    /\ folded' = Some(fold_vec(data))
    /\ UNCHANGED data
    /\ UNCHANGED outside_fold

NextFold == FoldVec

SpecFold == InitFold /\ [][NextFold]_vars

\* ------------------------------------------------------------ HuffmanMapS
\* update_from_fn, line 210
raw_start == 1000000
\* update_from_fn, line 211: HuffmanMapSRaw::new(1_000_012, 12, 32)
raw_key == 1000012
raw_bits == 12

\* DiffValue::new_raw, DiffValue::new_corrected, corrector.rs lines 28-39
new_raw(value) == [qtype |-> "Raw", value |-> value]
new_corrected(value) == [qtype |-> "Corrected", value |-> value]

\* i64::signum, i64::abs
signum(x) == IF x > 0 THEN 1 ELSE IF x < 0 THEN 0 - 1 ELSE 0
abs(x) == IF x < 0 THEN 0 - x ELSE x

\* update_from_fn_range, lines 271-283: the block that starts at `start`
update_from_fn_range(start, blocks, bsize_bits) ==
    [ start_quantized |-> start[1],
      start_huffman |-> start[2],
      end_quantized |-> start[1] + blocks * pow2(bsize_bits),
      end_huffman |-> start[2] + blocks,
      blocks |-> blocks,
      block_size |-> pow2(bsize_bits),
      block_size_bits |-> bsize_bits ]

\* update_from_fn, lines 215-221: the ranges, as <<blocks, bsize_bits>>
HuffRanges == << <<1, 0>>, <<64, 0>>, <<64, 1>>, <<64, 2>>, <<128, 3>>, <<128, 4>>, <<128, 5>> >>

\* update_from_fn, lines 214-221: self.blocks, each range starting where the
\* one before it ended
RECURSIVE blocks_from(_, _)
blocks_from(cur, ranges) ==
    IF ranges = <<>> THEN <<>>
    ELSE LET blck == update_from_fn_range(cur, Head(ranges)[1], Head(ranges)[2])
         IN  <<blck>> \o blocks_from(<<blck.end_quantized, blck.end_huffman>>, Tail(ranges))

HuffBlocks == blocks_from(<<0, 0>>, HuffRanges)

\* update_from_fn_range lines 266-269 and update_from_fn lines 224-226: the
\* symbols of self.map, which the Huffman book is built from
map_keys(self) ==
    LET last == HuffBlocks[Len(HuffBlocks)].end_huffman - 1
    IN  (0..last) \cup (IF self.symmetric THEN { 0 - k : k \in 1..last } ELSE {}) \cup {raw_key}

\* The first block a predicate holds of, as get_qval_block and get_hkey_block
\* look for it
first_block(Holds(_)) ==
    LET found == { i \in DOMAIN HuffBlocks : Holds(HuffBlocks[i]) }
    IN  IF found = {} THEN None
        ELSE Some(HuffBlocks[CHOOSE i \in found : \A j \in found : i <= j])

\* get_qval_block, lines 351-360
get_qval_block(qval) ==
    first_block(LAMBDA blck : abs(qval) >= blck.start_quantized /\ abs(qval) < blck.end_quantized)

\* get_hkey_block, lines 361-369
get_hkey_block(hkey) ==
    first_block(LAMBDA blck : abs(hkey) >= blck.start_huffman /\ abs(hkey) < blck.end_huffman)

\* get_raw_block, lines 342-349: Some(the raw block), here its bits
get_raw_block(qval) == IF qval = raw_key THEN Some(raw_bits) ELSE None

\* HuffmanMapSBlock::tr_corrected2hk, lines 58-75
tr_corrected2hk(self, vq) ==
    LET v == abs(vq) - self.start_quantized
    IN  IF ~(abs(vq) >= self.start_quantized /\ abs(vq) < self.end_quantized) THEN Panic
        ELSE [ qtype |-> "Corrected",
               key |-> (v \div self.block_size + self.start_huffman) * signum(vq),
               extra_bits |-> self.block_size_bits,
               extra_data |-> v % self.block_size ]

\* HuffmanMapSBlock::tr_hk2corrected, lines 81-82: its assertions
tr_hk2corrected_asserts(self, hk) ==
    /\ hk.qtype = "Corrected"
    /\ abs(hk.key) >= self.start_huffman
    /\ abs(hk.key) < self.end_huffman

\* HuffmanMapSBlock::tr_hk2corrected, lines 77-86, when its assertions hold
tr_hk2corrected(self, hk) ==
    ((abs(hk.key) - self.start_huffman) * self.block_size + hk.extra_data + self.start_quantized)
    * signum(hk.key)

\* HuffmanMapS::to_hkey, lines 311-325
to_hkey(dv) ==
    IF dv.qtype = "Raw"
    THEN [qtype |-> "Raw", key |-> raw_key, extra_bits |-> raw_bits, extra_data |-> dv.value]
    ELSE IF get_qval_block(dv.value) = None THEN Panic
    ELSE tr_corrected2hk(unwrap(get_qval_block(dv.value)), dv.value)

\* HuffmanKey::encode_extra, lines 138-146: the last extra_bits of the 64 bits
\* of extra_data in two's complement, the highest first
encode_extra(self) ==
    [ i \in 1..self.extra_bits |->
        ((self.extra_data % pow2(self.extra_bits)) \div pow2(self.extra_bits - i)) % 2 ]

\* composite.rs lines 75-85: the bits read as the low end of an i64
RECURSIVE from_bits(_)
from_bits(b) == IF b = <<>> THEN 0 ELSE 2 * from_bits(SubSeq(b, 1, Len(b) - 1)) + b[Len(b)]

\* HuffmanMapS::get_partial_hkey, lines 287-309
get_partial_hkey(hkey) ==
    IF hkey < raw_start
    THEN IF get_hkey_block(hkey) = None THEN Panic
         ELSE [ qtype |-> "Corrected", key |-> hkey,
                extra_bits |-> unwrap(get_hkey_block(hkey)).block_size_bits ]
    ELSE IF get_raw_block(hkey) = None THEN Panic
         ELSE [qtype |-> "Raw", key |-> hkey, extra_bits |-> unwrap(get_raw_block(hkey))]

\* HuffmanPartialKey::add_extra_data, lines 158-166
add_extra_data(self, extra_data) ==
    [qtype |-> self.qtype, key |-> self.key, extra_bits |-> self.extra_bits, extra_data |-> extra_data]

\* HuffmanMapS::from_hkey, lines 327-341
from_hkey(hkey) ==
    IF hkey.qtype = "Raw" THEN new_raw(hkey.extra_data)
    ELSE IF get_hkey_block(hkey.key) = None THEN Panic
    ELSE IF ~tr_hk2corrected_asserts(unwrap(get_hkey_block(hkey.key)), hkey) THEN Panic
    ELSE new_corrected(tr_hk2corrected(unwrap(get_hkey_block(hkey.key)), hkey))

\* The values mapped: residuals around zero and at the ends of the blocks,
\* raw values at the ends of the 12 bits
CorrectedDraws ==
    ((0 - 70)..70) \cup {192, 193, 448, 449, 1472, 1473, 3520, 3521, 7616, 0 - 7616, 7617, 0 - 7617, 100000}
RawDraws == {0, 1, 100, 4095, 4096, 10000, 0 - 1}

InitHuff ==
    /\ config = [forget_inflight |-> MaxForget, forget_recv |-> MaxForget, forget_lost |-> MaxForget]
    /\ dest = <<>>
    /\ now = 0
    /\ last_refresh = 0 - (CliRefresh + 1)
    /\ op = NoOp
    /\ ThreadsInit
    /\ LoopInit
    /\ StatsIdle
    /\ PercentilesIdle
    /\ CodecIdle
    /\ HeaderIdle
    /\ IterIdle
    /\ FoldIdle
    /\ mapper \in [symmetric : BOOLEAN]
    /\ diffvalue \in { Some(new_raw(v)) : v \in RawDraws }
                     \cup { Some(new_corrected(v)) : v \in CorrectedDraws }
    /\ written = None
    /\ read_diff = None
    /\ DrawIdle
    /\ RoundIdle
    /\ CompositeIdle
    /\ RaceIdle
    /\ PaceIdle
    /\ LogIdle

\* CompositeStage::encode, composite.rs lines 61-65: the symbol of the key,
\* which huffman.encode(..).unwrap() has only for the keys of the map, then
\* the extra bits
HuffWrite ==
    /\ written = None
    /\ LET hkey == to_hkey(unwrap(diffvalue))
       IN  written' = Some(IF hkey = Panic THEN Panic
                           ELSE IF hkey.key \notin map_keys(mapper) THEN Panic
                           ELSE [symbol |-> hkey.key, extra |-> encode_extra(hkey)])
    /\ UNCHANGED <<mapper, diffvalue, read_diff>>
    /\ UNCHANGED outside_huff

\* CompositeStage::decode, composite.rs lines 69-90
HuffRead ==
    /\ written # None
    /\ unwrap(written) # Panic
    /\ read_diff = None
    /\ LET partial_key == get_partial_hkey(unwrap(written).symbol)
       IN  read_diff' = Some(IF partial_key = Panic THEN Panic
                             ELSE from_hkey(add_extra_data(partial_key,
                                                           from_bits(unwrap(written).extra))))
    /\ UNCHANGED <<mapper, diffvalue, written>>
    /\ UNCHANGED outside_huff

NextHuff ==
    \/ HuffWrite
    \/ HuffRead

SpecHuff == InitHuff /\ [][NextHuff]_vars

\* --------------------------------------------------------- Comms::send_all
\* lines 377-385: for every destination, how far last_pckt_sent lies after now
send_all_keys(ds, t) ==
    [d \in DOMAIN ds |-> saturating_duration_since(ds[d].last_pckt_sent, t)]

\* The orders of the indices of ds
Orders(ds) ==
    { q \in [DOMAIN ds -> DOMAIN ds] : \A i, j \in DOMAIN ds : i # j => q[i] # q[j] }

\* line 386, sort_unstable_by_key(-x): the greatest key first; sort_unstable
\* may leave equal keys in any order
send_all_orders(ds, t) ==
    { q \in Orders(ds) :
        \A i, j \in DOMAIN ds : i < j => send_all_keys(ds, t)[q[i]] >= send_all_keys(ds, t)[q[j]] }

\* Faulty variant of limit_reached: one packet more than the limit goes out.
limit_exceeded(limit, count) == limit > 0 /\ count > limit

\* line 391
limit_reached(limit, count) == limit > 0 /\ count >= limit

\* lines 388-395: the loop from position i of the order on; draws[n] is what
\* the rng gives destination n.  attempted and sent are history.
RECURSIVE send_all_loop(_, _, _, _, _, _, _)
send_all_loop(ds, order, i, limit, count, delay, draws) ==
    IF i > Len(order) THEN [dest |-> ds, count |-> count, attempted |-> <<>>, sent |-> <<>>]
    ELSE LET n == order[i]
             refused == send_refused(ds[n], delay, draws[n].rnd_num, now)
             after == [ds EXCEPT ![n] = Destination_send(ds[n], delay, draws[n].rnd_num,
                                                         draws[n].jitter, draws[n].new_seq, now)]
         IN  IF refused
             THEN LET rest == send_all_loop(ds, order, i + 1, limit, count, delay, draws)
                  IN  [rest EXCEPT !.attempted = <<n>> \o @]
             ELSE IF limit_reached(limit, count + 1)
             THEN [dest |-> after, count |-> count + 1, attempted |-> <<n>>, sent |-> <<n>>]
             ELSE LET rest == send_all_loop(after, order, i + 1, limit, count + 1, delay, draws)
                  IN  [rest EXCEPT !.attempted = <<n>> \o @, !.sent = <<n>> \o @]

\* Comms::send_all(limit), lines 374-397; delay is self.delay / 2
SendAll(limit, delay, draws, order) ==
    /\ dest # <<>>
    /\ total_sent(dest) < MaxSent
    /\ order \in send_all_orders(dest, now)
    /\ LET result == send_all_loop(dest, order, 1, limit, 0, delay, draws)
       IN  /\ dest' = result.dest
           /\ op' = [kind |-> "send_all", d |-> 0, packet |-> None, why |-> "", n |-> result.count]
           /\ last_round' = Some([limit |-> limit, attempted |-> result.attempted, sent |-> result.sent])
    /\ UNCHANGED <<config, now, last_refresh>>
    /\ UNCHANGED <<thread_vars, loop_vars, stats_vars, percentile_vars, codec_vars, header_vars, iter_vars, fold_vars, huff_vars, draw_vars, composite_vars, race_vars, pace_vars, log_vars>>

SendAllStep ==
    \E limit \in 0..MaxLimit, delay \in 0..MaxInterval, order \in Orders(dest) :
        \E draws \in [DOMAIN dest -> [rnd_num : {RndLo}, jitter : 0..MaxJitter, new_seq : U16Draws]] :
            SendAll(limit, delay, draws, order)

\* add_destination; the ident is not read by send_all
SendAllAdd ==
    /\ Len(dest) < MaxDest
    /\ \E interval \in Intervals : AddDestination(interval, 0)

\* Several destinations, send_all as the main loop calls it
NextSendAll ==
    \/ Tick
    \/ SendAllAdd
    \/ SendAllStep

SpecSendAll == Init /\ [][NextSendAll]_vars

\* ------------------------------------------- Destination::send when crowded
\* A destination that n calls of send have filled, none of them answered
\* at time 0: what Destination_send leaves each time, written out
crowded(n) ==
    IF n = 0 THEN Destination_new(1, 0, 0)
    ELSE [ Destination_new(1, 0, 0) EXCEPT
             !.last_pckt_sent = 0,
             !.inflight_packets = [k \in 1..n |-> PacketSent_new(IF k = 1 THEN FirstSeq ELSE 0, 0, k)],
             !.seq = 0,
             !.sent_count = n ]

\* In-flight packets at the start: around the least and the greatest draw
CrowdDraws == {RndLo - 1, RndLo, RndLo + 1, RndHi - 2, RndHi - 1, RndHi}
\* gen_range(16, 64): its extremes and their neighbours
CrowdRndDraws == {RndLo, RndLo + 1, RndHi - 2, RndHi - 1}

InitCrowd ==
    /\ config = [forget_inflight |-> MaxForget, forget_recv |-> MaxForget, forget_lost |-> MaxForget]
    /\ \E n \in CrowdDraws : dest = <<crowded(n)>>
    /\ now = 0
    /\ last_refresh = 0 - (CliRefresh + 1)
    /\ op = NoOp
    /\ ThreadsInit
    /\ LoopInit
    /\ StatsIdle
    /\ PercentilesIdle
    /\ CodecIdle
    /\ HeaderIdle
    /\ IterIdle
    /\ FoldIdle
    /\ HuffIdle
    /\ drawn = None
    /\ sends = 0
    /\ RoundIdle
    /\ CompositeIdle
    /\ RaceIdle
    /\ PaceIdle
    /\ LogIdle

\* Destination::send on the crowded destination
SendCrowded(min_delay, rnd_num, jitter, new_seq) ==
    /\ sends < MaxCrowdSent
    /\ dest' = [dest EXCEPT ![1] = Destination_send(dest[1], min_delay, rnd_num, jitter, new_seq, now)]
    /\ op' = [kind |-> "send", d |-> 1, packet |-> None,
              why |-> IF send_refused(dest[1], min_delay, rnd_num, now) THEN "refused" ELSE "sent",
              n |-> IF send_refused(dest[1], min_delay, rnd_num, now) THEN 0 ELSE 1]
    /\ drawn' = Some([rnd_num |-> rnd_num, min_delay |-> min_delay])
    /\ sends' = IF send_refused(dest[1], min_delay, rnd_num, now) THEN sends ELSE sends + 1
    /\ UNCHANGED <<config, now, last_refresh>>
    /\ UNCHANGED <<thread_vars, loop_vars, stats_vars, percentile_vars, codec_vars, header_vars, iter_vars, fold_vars, huff_vars, round_vars, composite_vars, race_vars, pace_vars, log_vars>>

CrowdSendStep ==
    \E rnd_num \in CrowdRndDraws, jitter \in 0..MaxJitter, new_seq \in U16Draws :
        \E min_delay \in MinDelays(dest[1]) :
            SendCrowded(min_delay, rnd_num, jitter, new_seq)

CrowdTick == Tick

NextCrowd ==
    \/ CrowdTick
    \/ CrowdSendStep

SpecCrowd == InitCrowd /\ [][NextCrowd]_vars

\* ================================================================ claims
\* Helpers of the statements.
Last(q) == q[Len(q)]
Occurrences(q, id) == Cardinality({ i \in DOMAIN q : q[i].id = id })
Held(dst, id) ==
    Occurrences(dst.inflight_packets, id) + Occurrences(dst.recv_packets, id)
        + Occurrences(dst.lost_packets, id)
\* The arrival stamp of a reply: its stamp, or the time of the call when it has none
Arrival(packet) == IF is_none(packet.received) THEN now ELSE unwrap(packet.received)
\* The in-flight entries of dst that carry the reply's seqn and have no rtt
Carrying(dst, packet) ==
    { i \in DOMAIN dst.inflight_packets :
        /\ dst.inflight_packets[i].seqn = packet.seqn
        /\ dst.inflight_packets[i].received = None }
\* The step is a call of Destination::recv on destination d with reply packet
IsRecv(d, packet) == op'.kind = "recv" /\ op'.d = d /\ op'.packet = Some(packet)

\* C1 (as claimed): every PacketSent that is held at all is held by exactly one
\* of inflight_packets, recv_packets, lost_packets, exactly once; a retention
\* configuration with forget_recv < forget_inflight breaks it.
C1_ExactlyOneQueue ==
    \A d \in DOMAIN dest : \A id \in 1..dest[d].sent_count : Held(dest[d], id) <= 1

\* C2: a reply with the destination's ident, stamped no earlier than the send,
\* and exactly one in-flight entry s with its seqn and no rtt: after the call s
\* has left inflight_packets, is the last entry of recv_packets with
\* rtt = arrival - s.sent >= 0, and recv_count is one more.
C2_MatchPromotes ==
    [][ \A d \in DOMAIN dest : \A packet \in Replies :
          ( /\ IsRecv(d, packet)
            /\ packet.ident = dest[d].ident
            /\ Cardinality(Carrying(dest[d], packet)) = 1
            /\ \A i \in Carrying(dest[d], packet) :
                  Arrival(packet) >= dest[d].inflight_packets[i].sent )
          => \A i \in Carrying(dest[d], packet) :
                LET s == dest[d].inflight_packets[i]
                    rtt == Arrival(packet) - s.sent
                IN  /\ Occurrences(dest'[d].inflight_packets, s.id) = 0
                    /\ dest'[d].recv_packets # <<>>
                    /\ Last(dest'[d].recv_packets) = [s EXCEPT !.received = Some(rtt)]
                    /\ rtt >= 0
                    /\ dest'[d].recv_count = dest[d].recv_count + 1 ]_vars

\* C2 witness: a call promoted the one entry that matched, with rtt 1
C2_Witness ==
    /\ op.kind = "recv" /\ op.why = "promoted" /\ op.n = 1
    /\ dest[op.d].recv_count = 1
    /\ Last(dest[op.d].recv_packets).received = Some(1)
    /\ dest[op.d].inflight_packets = <<>>

C4_RecvFrame ==
    [][ \A d \in DOMAIN dest : \A packet \in Replies :
          IsRecv(d, packet)
          => /\ \A i \in DOMAIN dest[d].inflight_packets :
                  LET s == dest[d].inflight_packets[i]
                  IN  (\A j \in DOMAIN dest'[d].inflight_packets :
                          dest'[d].inflight_packets[j] # s)
                      => /\ packet.ident = dest[d].ident
                         /\ packet.seqn = s.seqn
                         /\ s.received = None
             /\ ( \/ packet.ident # dest[d].ident
                  \/ \A i \in DOMAIN dest[d].inflight_packets :
                        dest[d].inflight_packets[i].seqn # packet.seqn )
                => dest'[d] = dest[d] ]_vars

\* C4 witness: a reply with another ident was offered to a destination that
\* holds an in-flight entry with the reply's seqn
C4_Witness ==
    /\ op.kind = "recv" /\ op.why = "ident"
    /\ \E i \in DOMAIN dest[op.d].inflight_packets :
          dest[op.d].inflight_packets[i].seqn = unwrap(op.packet).seqn

\* C5: the reply that has just promoted its in-flight entry is delivered again,
\* and no in-flight entry carries its seqn: the second delivery changes nothing.
C5_DuplicateReply ==
    [][ \A d \in DOMAIN dest : \A packet \in Replies :
          ( /\ op.kind = "recv" /\ op.d = d /\ op.why = "promoted"
            /\ op.packet = Some(packet)
            /\ IsRecv(d, packet)
            /\ \A i \in DOMAIN dest[d].inflight_packets :
                  dest[d].inflight_packets[i].seqn # packet.seqn )
          => dest'[d] = dest[d] ]_vars

\* C5 witness: the second of two deliveries of one reply, the first of which
\* promoted an entry
C5_Witness ==
    /\ op.kind = "recv" /\ op.why = "nomatch"
    /\ dest[op.d].recv_packets # <<>>
    /\ unwrap(op.packet).ident = dest[op.d].ident
    /\ unwrap(op.packet).seqn = Last(dest[op.d].recv_packets).seqn
    /\ op.packet[1].received # None
    /\ Last(dest[op.d].recv_packets).received
          = Some(unwrap(unwrap(op.packet).received) - Last(dest[op.d].recv_packets).sent)
    /\ dest[op.d].recv_count = 1 /\ dest[op.d].sent_count = 1
    /\ now = Last(dest[op.d].recv_packets).sent

\* C6 (as claimed): an entry with rtt set is in recv_packets or lost_packets and
\* an entry with rtt unset is in inflight_packets, so that lost_packets holds no
\* entry with rtt unset.
C6_RttSetOutsideInflight ==
    \A d \in DOMAIN dest :
        /\ \A i \in DOMAIN dest[d].inflight_packets : dest[d].inflight_packets[i].received = None
        /\ \A i \in DOMAIN dest[d].recv_packets : dest[d].recv_packets[i].received # None
        /\ \A i \in DOMAIN dest[d].lost_packets : dest[d].lost_packets[i].received # None

\* C6 (amended): every entry of recv_packets has rtt set; every entry of
\* inflight_packets and of lost_packets has rtt unset.
C6_RttSetIffReceived ==
    \A d \in DOMAIN dest :
        /\ \A i \in DOMAIN dest[d].inflight_packets : dest[d].inflight_packets[i].received = None
        /\ \A i \in DOMAIN dest[d].recv_packets : dest[d].recv_packets[i].received # None
        /\ \A i \in DOMAIN dest[d].lost_packets : dest[d].lost_packets[i].received = None

\* C6 witness: after a cleanup one destination holds a received and a lost entry
C6_Witness ==
    /\ op.kind = "cleanup"
    /\ \E d \in DOMAIN dest :
          /\ dest[d].recv_packets # <<>>
          /\ dest[d].lost_packets # <<>>

\* C7 (as claimed): no two destinations of one Comms have the same ident, and a
\* reply offered to every destination by recv_all is accepted by at most one.
C7_IdentUnique ==
    /\ \A i, j \in DOMAIN dest : i # j => dest[i].ident # dest[j].ident
    /\ op.kind = "recv_all" => op.n <= 1

\* C8: inflight_packets is ordered by send stamp, ascending.
C8_InflightSorted ==
    \A d \in DOMAIN dest : \A i, j \in DOMAIN dest[d].inflight_packets :
        i < j => dest[d].inflight_packets[i].sent <= dest[d].inflight_packets[j].sent

\* C8 witness: a send has added an entry behind one that was sent earlier
C8_Witness ==
    /\ op.kind = "send" /\ op.n = 1
    /\ Len(dest[op.d].inflight_packets) = 2
    /\ dest[op.d].inflight_packets[1].sent < dest[op.d].inflight_packets[2].sent

\* C9: every entry of recv_packets has rtt >= 0; a reply stamped earlier than
\* the send stamp of an in-flight entry with its seqn does not promote that
\* entry: the entry stays in inflight_packets with rtt unset, and recv_count
\* grows only by the number of entries sent no later than the reply's stamp.
C9_NoEarlyPromotion ==
    /\ [](\A d \in DOMAIN dest : \A i \in DOMAIN dest[d].recv_packets :
            /\ dest[d].recv_packets[i].received # None
            /\ unwrap(dest[d].recv_packets[i].received) >= 0)
    /\ [][ \A d \in DOMAIN dest : \A packet \in Replies :
             IsRecv(d, packet) /\ packet.ident = dest[d].ident
             => /\ \A i \in Carrying(dest[d], packet) :
                     LET s == dest[d].inflight_packets[i]
                     IN  Arrival(packet) < s.sent
                         => /\ \E j \in DOMAIN dest'[d].inflight_packets :
                                  dest'[d].inflight_packets[j] = s
                            /\ Occurrences(dest'[d].recv_packets, s.id) = 0
                /\ dest'[d].recv_count = dest[d].recv_count
                     + Cardinality({ i \in Carrying(dest[d], packet) :
                                       Arrival(packet) >= dest[d].inflight_packets[i].sent }) ]_vars

\* C9 witness: a reply was offered to a destination that holds an in-flight
\* entry with its seqn, sent after the reply was stamped, and promoted nothing
C9_Witness ==
    /\ op.kind = "recv" /\ op.why = "early"
    /\ \E i \in DOMAIN dest[op.d].inflight_packets :
          /\ dest[op.d].inflight_packets[i].seqn = unwrap(op.packet).seqn
          /\ dest[op.d].inflight_packets[i].sent > unwrap(unwrap(op.packet).received)
          /\ dest[op.d].inflight_packets[i].received = None
    /\ dest[op.d].recv_count = 0

\* C10 (as claimed): with cleanup run once per refresh, the three queues of a
\* destination together hold at most max_rate * (forget_inflight + forget_recv
\* + forget_lost) entries, max_rate = 1 / interval; stated for the states that
\* cleanup leaves.
C10_QueuesBounded ==
    \A d \in DOMAIN dest :
        op.kind = "cleanup"
        => (Len(dest[d].inflight_packets) + Len(dest[d].recv_packets)
                + Len(dest[d].lost_packets)) * dest[d].interval
           <= config.forget_inflight + config.forget_recv + config.forget_lost

\* The entries a destination has sent and not yet given up: in flight or received
SentEntries(dst) == dst.inflight_packets \o dst.recv_packets
\* The send instant of the id-th packet of dst, while SentEntries holds it
SentAt(dst, id) ==
    LET q == SentEntries(dst)
    IN  q[CHOOSE i \in DOMAIN q : q[i].id = id].sent

\* C11 (as claimed): any two consecutive successful sends of one destination are
\* at least the destination's interval apart, whatever min_delay and jitter
\* were; stated where no cleanup runs, so that every packet sent is still held.
C11_SendSpacing ==
    \A d \in DOMAIN dest : \A id \in 2..dest[d].sent_count :
        SentAt(dest[d], id) - SentAt(dest[d], id - 1) >= dest[d].interval

\* C12 (as claimed): an entry that leaves inflight_packets without being matched
\* was in lost_packets, or is pushed to lost_packets by the call that drops it;
\* and an entry that is in lost_packets is never promoted to recv_packets
\* afterwards.
C12_TotalOrder ==
    [][ \A d \in DOMAIN dest : \A id \in 1..dest[d].sent_count :
          /\ ( /\ Occurrences(dest[d].inflight_packets, id) > 0
               /\ Occurrences(dest'[d].inflight_packets, id) = 0
               /\ Occurrences(dest'[d].recv_packets, id) = 0 )
             => \/ Occurrences(dest[d].lost_packets, id) > 0
                \/ Occurrences(cleanup_lost(dest[d], config, now), id) > 0
          /\ ( /\ Occurrences(dest[d].lost_packets, id) > 0
               /\ Occurrences(dest[d].recv_packets, id) = 0 )
             => Occurrences(dest'[d].recv_packets, id) = 0 ]_vars

\* The arrival numbers of the replies of a list
Serials(q) == [i \in DOMAIN q |-> q[i].n]
\* The replies the receiver thread has parsed, oldest first: those passed to
\* Destination::recv, then those on their way
Handed == delivered \o local \o readbuf \o buffer

\* C13: at every point of every interleaving the replies parsed so far are, in
\* arrival order and each exactly once, the replies already passed to
\* Destination::recv followed by those still held by recv_all, the shared buffer
\* and the scratch list: none is lost, duplicated or overtaken.
C13_ExactlyOnceInOrder ==
    Serials(Handed) = [i \in 1..arrived |-> i]

\* C13 witness: a try_lock was contended while the scratch list held a reply,
\* and all replies have since been passed to Destination::recv
C13_Witness ==
    /\ contended
    /\ arrived = MaxReplies
    /\ Serials(delivered) = [i \in 1..MaxReplies |-> i]

\* The list q holds the reply with arrival number n
Holds(q, n) == \E i \in DOMAIN q : q[i].n = n

\* C14 (as claimed): the receiver thread always has a next step (it never waits
\* for the Mutex), the two threads never both wait, and under fair scheduling
\* every reply in the scratch list is eventually in the shared buffer and then
\* passed on by recv_all.
C14_EventuallyDrained ==
    /\ [](ENABLED RxStep)
    /\ \A n \in 1..MaxReplies : Holds(buffer, n) ~> Holds(delivered, n)

\* C15 (as claimed): a send that the kernel refuses (send_to returns Err inside
\* Destination::send) does not abort the main loop.
C15_SendErrorNotPropagated ==
    (op.kind = "send" /\ op.why = "send_to Err") => ~aborted

\* C16 (as claimed): after every refresh a stats datagram has been attempted for
\* every destination, whatever the earlier datagrams' sends answered.
C16_OneDatagramPerDestination ==
    op.kind = "refresh"
    => /\ Len(udp_attempted) = Len(dest)
       /\ \A d \in DOMAIN dest : udp_attempted[d]

\* x saturated at k limbs: x if it fits, the largest value of k limbs if not
as_saturating(x, k) ==
    IF fits(x, k) THEN SubSeq(x, 1, k) ELSE [i \in 1..k |-> U16 - 1]

\* The five values a datagram should carry when they fit their fields
Expected(c) ==
    [ ok |-> TRUE,
      addr |-> IpAddr_to_string(c.addr),
      inflight_count |-> SubSeq(c.inflight_count, 1, 1),
      avg_time_us |-> SubSeq(Duration_as_micros(c.avg_time), 1, 2),
      last_pckt_ms |-> SubSeq(Duration_as_millis(c.last_pckt_received), 1, 2),
      packet_loss_x100_000 |-> packet_loss_x1000(c.packet_loss) ]
\* Every value of the tuple fits its field
FitsFields(c) ==
    /\ fits(c.inflight_count, 1)
    /\ fits(Duration_as_micros(c.avg_time), 2)
    /\ fits(Duration_as_millis(c.last_pckt_received), 2)

\* C17 (as claimed): the datagram carries inflight_count, avg_time_us and
\* last_pckt_ms saturated at the width of their fields: 65535 for a count above
\* 65535, 2^32 - 1 for a time above 2^32 - 1.
C17_EncodeSaturates ==
    msg # None
    => LET c == unwrap(cli_stat)
           u == UdpStats_from_buf(unwrap(msg))
       IN  /\ u.ok
           /\ u.inflight_count = as_saturating(c.inflight_count, 1)
           /\ u.avg_time_us = as_saturating(Duration_as_micros(c.avg_time), 2)
           /\ u.last_pckt_ms = as_saturating(Duration_as_millis(c.last_pckt_received), 2)

\* C18: when every value fits its field, from_buf of the bytes of encode_stats
\* is Ok and returns the address string, the in-flight count, the average RTT
\* in microseconds, the age of the last reply in milliseconds and the loss
\* percentage times 1000, truncated, each in its place.
C18_StatsRoundTrip ==
    (udp_stats # None /\ FitsFields(unwrap(cli_stat)))
    => unwrap(udp_stats) = Expected(unwrap(cli_stat))

\* C18 witness: a datagram with a V6 address, 65535 in flight, an average RTT of
\* 2^32 - 1 microseconds, a last reply 2^32 - 1 milliseconds old and a loss with
\* a fraction has been parsed
C18_Witness ==
    /\ udp_stats # None
    /\ unwrap(udp_stats).ok
    /\ unwrap(cli_stat).addr.v = 6
    /\ unwrap(udp_stats).inflight_count = <<65535>>
    /\ unwrap(udp_stats).avg_time_us = <<65535, 65535>>
    /\ unwrap(udp_stats).last_pckt_ms = <<65535, 65535>>
    /\ unwrap(udp_stats).packet_loss_x100_000 = <<437, 0>>

\* C19 (as claimed): for a non-empty ascending slice the seven percentiles are
\* non-decreasing; for the empty slice they are seven times -1.
C19_PercentilesMonotone ==
    percentiles # None
    => LET p == unwrap(percentiles)
       IN  IF samples = <<>>
           THEN p = <<0 - 1, 0 - 1, 0 - 1, 0 - 1, 0 - 1, 0 - 1, 0 - 1>>
           ELSE \A i \in 1..6 : p[i] <= p[i + 1]

\* C20 (as claimed): with recv_llq = None, for either delta_enc and any
\* full_encode_secs >= 1, each frame of a sequence in the order of its time
\* that is encoded, written by try_to_rmp, read by try_from_rmp and decoded by
\* a second FDCodecState of the same config comes back equal to the original in
\* timestamp, subsec_ms, inflight, lost_packets, recv_us_len and recv_us.
C20_CodecRoundTrip ==
    decoded # None
    => /\ unwrap(decoded) # Err
       /\ unwrap(decoded).timestamp = unwrap(frame).timestamp
       /\ unwrap(decoded).subsec_ms = unwrap(frame).subsec_ms
       /\ unwrap(decoded).inflight = unwrap(frame).inflight
       /\ unwrap(decoded).lost_packets = unwrap(frame).lost_packets
       /\ unwrap(decoded).recv_us_len = unwrap(frame).recv_us_len
       /\ unwrap(decoded).recv_us = unwrap(frame).recv_us

\* The bucket bound of a quantizer of precision 1 / per: 1 for a small value,
\* the value times the precision for a large one
WithinBucket(per, original, back) ==
    LET err == magnitude(back - original)
    IN  err <= 1 \/ per * err <= magnitude(original)

\* C21 (as claimed): with recv_llq = Some(precision), for either delta_enc,
\* every decoded recv_us[i] of every frame with recv_us_len > 0 is within the
\* bucket bound of the original value.
C21_QuantizedRoundTrip ==
    (decoded # None /\ cfg.recv_llq # None /\ unwrap(frame).recv_us_len > 0)
    => /\ unwrap(decoded) # Err
       /\ \A i \in 1..7 :
            WithinBucket(unwrap(cfg.recv_llq), unwrap(frame).recv_us[i],
                         unwrap(decoded).recv_us[i])

\* C22 (as claimed): a frame is written with a delta timestamp (nil in the
\* place of the seconds) only if its seconds are less than full_encode_secs
\* after those of the last frame written with an absolute timestamp.
C22_KeyframeDistance ==
    (rmp # None /\ unwrap(rmp)[1] = 192)
    => /\ keyframe # None
       /\ unwrap(unwrap(frame).timestamp) - unwrap(keyframe) < cfg.full_encode_secs

\* C23: try_from_header of the bytes of try_get_header(cfg) returns cfg; a
\* header whose schema is not FDCodec or whose version is above 101 is refused
\* with an error and no configuration; a header of schema FDCodec and version
\* 101 or below is accepted, with the configuration that was written.
C23_HeaderRoundTrip ==
    header_cfg # None
    => LET args == unwrap(header_args)
           result == unwrap(header_cfg)
       IN  /\ (args.schema = HEADER_SCHEMA /\ args.version <= 101)
               => (result.ok /\ result.val = args.cfg)
           /\ (args.schema # HEADER_SCHEMA \/ args.version > 101) => result = Err
           /\ (unwrap(header) = try_get_header(args.cfg)) => (result.ok /\ result.val = args.cfg)

\* C23 witness: the header that try_get_header writes for a configuration with
\* a quantizer and delta_enc has been read back
C23_Witness ==
    /\ header_cfg # None
    /\ unwrap(header) = try_get_header(unwrap(header_args).cfg)
    /\ unwrap(header_cfg).ok
    /\ unwrap(header_cfg).val = [full_encode_secs |-> 100000, recv_llq |-> Some(16), delta_enc |-> TRUE]

\* C23 witness of the refusals: a header of version 102 has been refused
C23_WitnessRefused ==
    /\ header_cfg # None
    /\ unwrap(header_args).schema = HEADER_SCHEMA
    /\ unwrap(header_args).version = 102
    /\ unwrap(header_cfg) = Err

\* C24: over a valid header followed by N whole frames FDCodecIter returns
\* exactly those N frames, decoded, then None, and None again when asked
\* again; over a file cut inside a frame it never returns None: it panics
\* once the whole frames have been returned.
C24_IterEnds ==
    /\ [](file # None =>
            /\ Len(items) <= Len(unwrap(file).frames)
            /\ \A i \in DOMAIN items : items[i] = unwrap(file).frames[i]
            /\ iter = "ended" => (~unwrap(file).partial /\ Len(items) = Len(unwrap(file).frames))
            /\ iter = "panicked" => (unwrap(file).partial /\ Len(items) = Len(unwrap(file).frames))
            /\ nones > 0 => iter = "ended")
    /\ [][iter = "ended" => (iter' = "ended" /\ items' = items)]_vars

\* C24 witness: two frames were returned, then None twice
C24_Witness ==
    /\ file # None
    /\ ~unwrap(file).partial
    /\ Len(items) = 2
    /\ iter = "ended"
    /\ nones = 2

\* C24 witness of the fatal case: after one whole frame, a cut frame made next panic
C24_WitnessCut ==
    /\ file # None
    /\ unwrap(file).partial
    /\ Len(items) = 1
    /\ iter = "panicked"

\* C25: fold_vec of a single frame with an absolute timestamp, whole counts
\* and ascending percentiles is that frame, in every field, its seven
\* percentiles included.
C25_FoldSingle ==
    (folded # None /\ Len(data) = 1) => unwrap(folded) = data[1]

\* C26: for every DiffValue x, Raw or Corrected, of any sign and size, to_hkey
\* gives a symbol and extra bits that are written, and get_partial_hkey,
\* add_extra_data and from_hkey of an equal mapper give x back from them.
C26_HuffRoundTrip ==
    /\ written # None => unwrap(written) # Panic
    /\ read_diff # None => unwrap(read_diff) = unwrap(diffvalue)

\* C27 as stated: send transmits only with fewer packets in flight than the
\* number drawn, and with as many or more it sends nothing and leaves the
\* destination as it was.
C27_SendBelowThreshold ==
    [][(op'.kind = "send" /\ drawn' # None) =>
         LET inflight == Len(dest[1].inflight_packets)
             rnd_num == unwrap(drawn').rnd_num
         IN  /\ op'.why = "sent" => inflight < rnd_num
             /\ inflight >= rnd_num => (op'.why = "refused" /\ dest'[1] = dest[1])]_vars

\* C27, amended: send refuses when there are more packets in flight than the
\* number drawn and then leaves the destination as it was; with as many in
\* flight as drawn, or fewer, it sends whenever the interval has elapsed.
C27_SendUpToThreshold ==
    [][(op'.kind = "send" /\ drawn' # None) =>
         LET inflight == Len(dest[1].inflight_packets)
             rnd_num == unwrap(drawn').rnd_num
             due == (now - dest[1].last_pckt_sent) + unwrap(drawn').min_delay >= dest[1].interval
         IN  /\ op'.why = "sent" => inflight <= rnd_num
             /\ inflight > rnd_num => (op'.why = "refused" /\ dest'[1] = dest[1])
             /\ (inflight <= rnd_num /\ due) =>
                    /\ op'.why = "sent"
                    /\ Len(dest'[1].inflight_packets) = inflight + 1
                    /\ dest'[1].sent_count = dest[1].sent_count + 1]_vars

\* C27 witness: with 16 in flight and 16 drawn the packet was sent
C27_Witness ==
    /\ drawn # None
    /\ unwrap(drawn).rnd_num = RndLo
    /\ op.kind = "send"
    /\ op.why = "sent"
    /\ Len(dest[1].inflight_packets) = RndLo + 1

\* C28: send_all tries the destinations the most overdue first, that is in the
\* order of last_pckt_sent + interval, and in the order of insertion among
\* equals.
C28_MostOverdueFirst ==
    [][(op'.kind = "send_all" /\ last_round' # None) =>
         LET tried == unwrap(last_round').attempted
             due(n) == dest[n].last_pckt_sent + dest[n].interval
         IN  \A i, j \in DOMAIN tried :
                i < j => \/ due(tried[i]) < due(tried[j])
                         \/ (due(tried[i]) = due(tried[j]) /\ tried[i] < tried[j])]_vars

\* C29: send_all(limit) returns the number of packets it sent, which is what
\* the sent_count of the destinations grew by; with limit > 0 that is never
\* more than limit, and with limit = 0 every destination is tried exactly once.
C29_SendAllCount ==
    [][(op'.kind = "send_all" /\ last_round' # None) =>
         LET r == unwrap(last_round')
         IN  /\ op'.n = total_sent(dest') - total_sent(dest)
             /\ op'.n = Len(r.sent)
             /\ \A n \in DOMAIN dest :
                  dest'[n].sent_count - dest[n].sent_count
                    = Cardinality({ i \in DOMAIN r.sent : r.sent[i] = n })
             /\ r.limit > 0 => op'.n <= r.limit
             /\ r.limit = 0 =>
                  \A n \in DOMAIN dest : Cardinality({ i \in DOMAIN r.attempted : r.attempted[i] = n }) = 1]_vars

\* C29 witness: with two destinations due, send_all(1) sent one packet and stopped
C29_Witness ==
    /\ op.kind = "send_all"
    /\ last_round # None
    /\ unwrap(last_round).limit = 1
    /\ op.n = 1
    /\ Len(dest) = 2
    /\ dest[1].sent_count + dest[2].sent_count = 1
    /\ Len(unwrap(last_round).attempted) = 1

\* C29 witness for limit = 0: both destinations were tried and both sent
C29_WitnessAll ==
    /\ op.kind = "send_all"
    /\ last_round # None
    /\ unwrap(last_round).limit = 0
    /\ op.n = 2
    /\ Len(unwrap(last_round).attempted) = 2

\* C30: right after cleanup at time now, no destination holds an in-flight
\* entry sent at or before now - forget_inflight, a received entry sent at or
\* before now - (forget_inflight + forget_recv), or a lost entry sent at or
\* before now - (forget_inflight + forget_lost); and every entry sent after
\* the limit of its queue is still in that queue, in its place.
C30_CleanupWindows ==
    [][op'.kind = "cleanup" =>
         \A d \in DOMAIN dest :
            LET t == now'
                c == config
                kept(q, wait) == SelectSeq(q, LAMBDA x : x.sent > t - wait)
                none_old(q, wait) == \A i \in DOMAIN q : q[i].sent > t - wait
                lost_wait == c.forget_inflight + c.forget_lost
            IN  /\ none_old(dest'[d].inflight_packets, c.forget_inflight)
                /\ none_old(dest'[d].recv_packets, c.forget_inflight + c.forget_recv)
                /\ none_old(dest'[d].lost_packets, lost_wait)
                /\ dest'[d].inflight_packets = kept(dest[d].inflight_packets, c.forget_inflight)
                /\ dest'[d].recv_packets = kept(dest[d].recv_packets, c.forget_inflight + c.forget_recv)
                /\ LET old_lost == kept(dest[d].lost_packets, lost_wait)
                   IN  /\ Len(dest'[d].lost_packets) >= Len(old_lost)
                       /\ SubSeq(dest'[d].lost_packets, 1, Len(old_lost)) = old_lost]_vars

\* C30 witness: a cleanup dropped the in-flight packet that was as old as
\* forget_inflight and kept the one sent after it
C30_Witness ==
    /\ op.kind = "cleanup"
    /\ config.forget_inflight = 1
    /\ now = 1
    /\ dest # <<>>
    /\ dest[1].sent_count = 2
    /\ dest[1].recv_count = 0
    /\ Len(dest[1].inflight_packets) = 1
    /\ dest[1].inflight_packets[1].sent = 1

\* ------------------------------------------ Destination: the window queries
\* The nanoseconds of one tick of `now`: Duration / u32 truncates to the nanosecond
TickNanos == 1000000

\* transport.rs: recv_before, an entry without rtt counts from its send
recv_before(pck, t, wait) ==
    LET received == IF is_none(pck.received) THEN 0 ELSE unwrap(pck.received)
    IN  saturating_duration_since(t, pck.sent + received) < wait

\* Destination::received_last
received_last(dst, wait, t) ==
    SelectSeq(dst.recv_packets, LAMBDA x : recv_before(x, t, wait))

\* The rtt of every entry (received.unwrap_or_default()), in ticks
rtts(q) == [i \in DOMAIN q |-> IF is_none(q[i].received) THEN 0 ELSE unwrap(q[i].received)]

\* Destination::mean_recv_time, the mean in nanoseconds
mean_recv_time(dst, time_avg, t) ==
    IF dst.recv_packets = <<>>
    THEN None
    ELSE LET avg == SelectSeq(dst.recv_packets,
                        LAMBDA x : t - (x.sent + unwrap(x.received)) < time_avg)
             avg_len == IF Len(avg) > 1 THEN Len(avg) ELSE 1
             tot_time == sum(rtts(avg))
         IN  Some((tot_time * TickNanos) \div avg_len)

\* The windows the queries are asked with
Windows == 0..(MaxTime + 1)

\* C31: mean_recv_time(window) is the arithmetic mean of the rtt of the entries of
\* received_last(window), and none whenever received_last(window) is empty, also
\* when recv_packets holds entries that are all outside the window.
C31_MeanOverWindow ==
    \A d \in DOMAIN dest, window \in Windows :
        LET last == received_last(dest[d], window, now)
        IN  mean_recv_time(dest[d], window, now) =
                IF last = <<>> THEN None
                ELSE Some((sum(rtts(last)) * TickNanos) \div Len(last))

\* The part of C31 the code keeps: with an entry inside the window the result is
\* the mean of the entries inside it.
C31_MeanWhenNonEmpty ==
    \A d \in DOMAIN dest, window \in Windows :
        LET last == received_last(dest[d], window, now)
        IN  last # <<>> =>
                mean_recv_time(dest[d], window, now) =
                    Some((sum(rtts(last)) * TickNanos) \div Len(last))

\* The percentile of fraction k8/8 in exact arithmetic: the element at the index
\* when the index is whole, else the interpolation of its two neighbours rounded
\* to the nearest integer
exact_percentile(v, k8) ==
    LET vmax == Len(v) - 1
        idx8 == k8 * vmax
        pl == idx8 \div 8
        pr == (idx8 + 7) \div 8
        fr8 == idx8 - 8 * pl
    IN  IF pl = pr THEN v[pl + 1]
        ELSE (v[pl + 1] * (8 - fr8) + v[pr + 1] * fr8 + 4) \div 8

\* C32: for a non-empty ascending v, compute_percentiles returns for each of the
\* fractions 0, 1/8, 1/4, 1/2, 3/4, 7/8, 1 the element at fraction x vmax when
\* that is an index, else the linear interpolation of the two neighbouring elements
\* rounded to the nearest integer.
C32_PercentilesInterpolate ==
    (percentiles # None /\ samples # <<>>)
    => \A i \in 1..7 :
          unwrap(percentiles)[i] = exact_percentile(samples, PercentileEighths[i])

\* The consequences C32 names that the code keeps: the first is the minimum, the
\* last the maximum, and one element comes back seven times.
C32_Ends ==
    (percentiles # None /\ samples # <<>>)
    => /\ unwrap(percentiles)[1] = samples[1]
       /\ unwrap(percentiles)[7] = samples[Len(samples)]
       /\ Len(samples) = 1 => \A i \in 1..7 : unwrap(percentiles)[i] = samples[1]

\* The record encode has just emitted, as a reader of its bytes sees it
emitted == try_from_rmp(unwrap(rmp)).val

\* C33: with delta_enc = false every record that FDCodecState::encode emits has an
\* absolute timestamp (its seconds and Abs milliseconds); a record with a null
\* second count and Delta milliseconds is emitted only with delta_enc = true.
C33_DeltaOnlyWhenEnabled ==
    (rmp # None /\ ~cfg.delta_enc)
    => /\ ~is_none(emitted.timestamp)
       /\ emitted.subsec_ms.type = "Abs"

\* --------------------------------- FDCodecState::encode, records in any order
\* line 377: extra_subsecs + subsec_ms_part - self.last_subsec_ms in u32 goes
\* below zero
delta_underflows(self, d) ==
    /\ peek_encode(self, d).subsec_ms.type = "Delta"
    /\ peek_encode(self, d).subsec_ms.v < 0

\* The bytes write_uint gives the u32 that wrapped to 2^32 + x, for x < 0
write_u32_wrapped(x) ==
    LET lo == x % U16
        hi == U16 + ((x - lo) \div U16)
    IN  <<206>> \o be_bytes(hi, 2) \o be_bytes(lo, 2)

\* try_to_rmp of a record whose Delta wrapped below zero
try_to_rmp_wrapped(self) ==
    write_nil \o write_u32_wrapped(self.subsec_ms.v)
              \o Drop(try_to_rmp([self EXCEPT !.subsec_ms = Delta(0)]), 2)

\* What encode and to_rmp leave for a record: its bytes; when the subtraction of
\* line 377 goes below zero, a panic in a build with overflow checks and the
\* bytes of the wrapped number in a build without
encode_emits(self, d) ==
    IF delta_underflows(self, d)
    THEN { Panic, try_to_rmp_wrapped(peek_encode(self, d)) }
    ELSE { try_to_rmp(peek_encode(self, d)) }

\* codec.encode(fdq), then fdq.to_rmp(), for a record of any time
EncodeAny(d) ==
    /\ rmp # Some(Panic)
    /\ \E out \in encode_emits(encoder, d) :
          /\ rmp' = Some(out)
          /\ encoder' = IF out = Panic THEN encoder ELSE push(encoder, d)
    /\ frame' = Some(d)
    /\ keyframe' = IF is_none(peek_encode(encoder, d).timestamp) THEN keyframe
                   ELSE peek_encode(encoder, d).timestamp
    /\ UNCHANGED <<cfg, decoder, decoded>>
    /\ UNCHANGED outside_codec

NextCodecAny == \E d \in FrameDataQ : EncodeAny(d)

\* A writer that is handed records in any order of their times
SpecCodecAny == InitCodec /\ [][NextCodecAny]_vars

\* The bytes are those of a record with a null second count (a Delta record)
is_delta_record(bytes) == bytes # Panic /\ bytes[1] = 192
\* The bytes are those of a record with its second count (an Abs record)
is_abs_record(bytes) == bytes # Panic /\ bytes[1] # 192

\* b.time - a.time in milliseconds, for two records with Abs milliseconds
ms_between(a, b) ==
    (unwrap(b.timestamp) - unwrap(a.timestamp)) * 1000 + b.subsec_ms.v - a.subsec_ms.v

\* C34: encode emits a Delta only for a record that is not earlier than the record
\* before it, the delta being the difference of the two times in milliseconds; a
\* record earlier than the one before it, also within the same second, is emitted
\* as Abs, and the u32 subtraction never goes below zero (no panic, no wrapped
\* number).
C34_DeltaNeverNegative ==
    [][ frame # None =>
          LET prev == unwrap(frame)
              d == unwrap(frame')
              out == unwrap(rmp')
          IN  /\ out # Panic
              /\ is_delta_record(out) =>
                    /\ not_later(prev, d)
                    /\ try_from_rmp(out).val.subsec_ms = Delta(ms_between(prev, d))
              /\ ~not_later(prev, d) => is_abs_record(out)
      ]_vars

\* The part of C34 the code keeps: a record not earlier than the one before it is
\* emitted without a panic, and as a Delta it carries the difference of the times.
C34_ForwardDelta ==
    [][ (frame # None /\ not_later(unwrap(frame), unwrap(frame'))) =>
          LET out == unwrap(rmp')
          IN  /\ out # Panic
              /\ is_delta_record(out) =>
                    try_from_rmp(out).val.subsec_ms
                        = Delta(ms_between(unwrap(frame), unwrap(frame')))
      ]_vars

\* ---------------------------------------------------------- CompositeStage
\* The values of a run and their number
MaxComposite == 3
CompositeDraws == {100, 110, 80, 9000, 1000000, 0 - 5}
\* The precisions 1/1000 (that of the test) and 1/2000, the windows 1 and 2
CompositePrecisions == {1000, 2000}
CompositeWindows == {1, 2}

\* WindowMedianPredictor::push_value, predict.rs lines 30-36
push_value(window, value, window_size) ==
    IF Len(window) + 1 > window_size THEN Tail(Append(window, value))
    ELSE Append(window, value)

\* WindowMedianPredictor::predict, predict.rs lines 37-53: None, or the median
\* of the window counted in halves
predict(window) ==
    IF Len(window) = 0 THEN None
    ELSE IF Len(window) = 1 THEN Some(2 * window[1])
    ELSE LET v == sort_unstable(window)
             i1 == (Len(window) - 1) \div 2
             i2 == Len(window) \div 2
         IN  Some(v[i1 + 1] + v[i2 + 1])

\* f64::round of a count of halves: half away from zero
round_halves(h) == IF h >= 0 THEN (h + 1) \div 2 ELSE 0 - ((1 - h) \div 2)

\* BasicCorrector::diff, corrector.rs lines 49-57
diff(qval, predicted) ==
    IF is_none(predicted) THEN new_raw(qval)
    ELSE new_corrected(qval - round_halves(unwrap(predicted)))

\* BasicCorrector::undiff, corrector.rs lines 58-67, when it does not panic
undiff(last_pred, dv) ==
    IF dv.qtype = "Raw" THEN dv.value
    ELSE dv.value + round_halves(unwrap(last_pred))

\* line 63: last_pred.unwrap() on None
undiff_panics(last_pred, dv) == dv.qtype = "Corrected" /\ is_none(last_pred)

\* CompositeStage::encode, lines 54-66: what is appended to the buffer, or a
\* panic of to_hkey or of huffman.encode(..).unwrap()
composite_encode(window, value) ==
    LET qval == LinearLogQuantizer_encode(cs_cfg.per, value)
        hkey == to_hkey(diff(qval, predict(window)))
    IN  IF hkey = Panic THEN Panic
        ELSE IF hkey.key \notin map_keys(mapper) THEN Panic
        ELSE [symbol |-> hkey.key, extra |-> encode_extra(hkey)]

\* CompositeStage::decode, lines 69-93, of the symbol and the bits after it:
\* the DiffValue, or a panic
composite_decode_diff(item) ==
    LET partial_key == get_partial_hkey(item.symbol)
    IN  IF partial_key = Panic THEN Panic
        ELSE from_hkey(add_extra_data(partial_key, from_bits(item.extra)))

\* CompositeStage::new for the encoding and the decoding stage
InitComposite ==
    /\ config = [forget_inflight |-> MaxForget, forget_recv |-> MaxForget, forget_lost |-> MaxForget]
    /\ dest = <<>>
    /\ now = 0
    /\ last_refresh = 0 - (CliRefresh + 1)
    /\ op = NoOp
    /\ ThreadsInit
    /\ LoopInit
    /\ StatsIdle
    /\ PercentilesIdle
    /\ CodecIdle
    /\ HeaderIdle
    /\ IterIdle
    /\ FoldIdle
    /\ HuffIdle
    /\ DrawIdle
    /\ RoundIdle
    /\ cs_cfg \in [per : CompositePrecisions, window_size : CompositeWindows]
    /\ cs_data = <<>>
    /\ cs_bits = <<>>
    /\ cs_enc = <<>>
    /\ cs_dec = <<>>
    /\ cs_windows = <<>>
    /\ new_data = <<>>
    /\ cs_status = "ok"
    /\ RaceIdle
    /\ PaceIdle
    /\ LogIdle

\* cs_enc.encode(&mut buffer, value), before the buffer is read
CompositeEncode(value) ==
    /\ cs_status = "ok"
    /\ new_data = <<>>
    /\ Len(cs_data) < MaxComposite
    /\ cs_data' = Append(cs_data, value)
    /\ cs_enc' = push_value(cs_enc, LinearLogQuantizer_encode(cs_cfg.per, value),
                            cs_cfg.window_size)
    /\ cs_windows' = Append(cs_windows, cs_enc')
    /\ IF composite_encode(cs_enc, value) = Panic
       THEN cs_status' = "encode panicked" /\ UNCHANGED cs_bits
       ELSE cs_bits' = Append(cs_bits, composite_encode(cs_enc, value)) /\ UNCHANGED cs_status
    /\ UNCHANGED <<cs_cfg, cs_dec, new_data>>
    /\ UNCHANGED outside_composite

\* cs_dec.decode(&mut iter): HuffmanDecodeNoItemError at the end of the bits
CompositeDecode ==
    /\ cs_status \in {"ok", "no item"}
    /\ cs_data # <<>>
    /\ IF Len(new_data) >= Len(cs_bits)
       THEN cs_status' = "no item" /\ UNCHANGED <<cs_dec, new_data>>
       ELSE LET dv == composite_decode_diff(cs_bits[Len(new_data) + 1])
            IN  IF dv = Panic \/ undiff_panics(predict(cs_dec), dv)
                THEN cs_status' = "decode panicked" /\ UNCHANGED <<cs_dec, new_data>>
                ELSE LET orig_qval == undiff(predict(cs_dec), dv)
                     IN  /\ cs_dec' = push_value(cs_dec, orig_qval, cs_cfg.window_size)
                         /\ new_data' = Append(new_data,
                                LinearLogQuantizer_decode(cs_cfg.per, orig_qval))
                         /\ UNCHANGED cs_status
    /\ UNCHANGED <<cs_cfg, cs_data, cs_bits, cs_enc, cs_windows>>
    /\ UNCHANGED outside_composite

NextComposite ==
    \/ \E value \in CompositeDraws : CompositeEncode(value)
    \/ CompositeDecode

SpecComposite == InitComposite /\ [][NextComposite]_vars

\* The quantizer round trip of a value
quantized(value) ==
    LinearLogQuantizer_decode(cs_cfg.per, LinearLogQuantizer_encode(cs_cfg.per, value))

\* C35: the values encoded one after another by a CompositeStage are decoded by
\* a CompositeStage of the same configuration into as many values, the k-th the
\* quantizer round trip of the k-th input, the predictor of the decoder holding
\* after each value the window that of the encoder held; one more decode after
\* them reports HuffmanDecodeNoItemError.
C35_CompositeRoundTrip ==
    /\ cs_status \in {"ok", "no item"}
    /\ Len(new_data) <= Len(cs_data)
    /\ \A k \in DOMAIN new_data : new_data[k] = quantized(cs_data[k])
    /\ new_data # <<>> => cs_dec = cs_windows[Len(new_data)]
    /\ cs_status = "no item" => Len(new_data) = Len(cs_data)

\* The part of C35 the code keeps: a first value from 0 to 4095 after quantizing
\* and later values within 7616 of their prediction come back as claimed.
C35_WithinRanges ==
    (/\ cs_status \in {"ok", "no item"}
     /\ cs_data # <<>>
     /\ LinearLogQuantizer_encode(cs_cfg.per, cs_data[1]) \in 0..(pow2(raw_bits) - 1))
    => /\ Len(new_data) <= Len(cs_data)
       /\ \A k \in DOMAIN new_data : new_data[k] = quantized(cs_data[k])
       /\ new_data # <<>> => cs_dec = cs_windows[Len(new_data)]
       /\ cs_status = "no item" => Len(new_data) = Len(cs_data)

\* ------------------------- PacketSent::new against the receiver thread's stamp
\* Destination::send up to tx.send_to of PacketSent::new (transport.rs lines
\* 206-219, icmp.rs lines 111-114): the request is on the wire, `sent` is not
\* taken yet
RaceTransmit(d, min_delay, rnd_num) ==
    /\ d \in DOMAIN dest
    /\ sending = None
    /\ total_sent(dest) < MaxSent
    /\ ~send_refused(dest[d], min_delay, rnd_num, now)
    /\ sending' = Some([d |-> d, min_delay |-> min_delay, rnd_num |-> rnd_num,
                        id |-> dest[d].sent_count + 1])
    /\ op' = [NoOp EXCEPT !.kind = "transmit", !.d = d]
    /\ UNCHANGED <<config, dest, now, last_refresh, stamped, answered>>
    /\ UNCHANGED <<thread_vars, loop_vars, stats_vars, percentile_vars, codec_vars, header_vars, iter_vars, fold_vars, huff_vars, draw_vars, round_vars, composite_vars, pace_vars, log_vars>>

\* The rest of PacketSent::new and of Destination::send (icmp.rs lines 115-120,
\* transport.rs lines 220-227): sent = Instant::now(), then the push
RaceStamp(jitter, new_seq) ==
    /\ sending # None
    /\ LET s == unwrap(sending)
       IN  dest' = [dest EXCEPT ![s.d] =
                        Destination_send(dest[s.d], s.min_delay, s.rnd_num, jitter, new_seq, now)]
    /\ sending' = None
    /\ op' = [kind |-> "send", d |-> unwrap(sending).d, packet |-> None, why |-> "sent", n |-> 1]
    /\ UNCHANGED <<config, now, last_refresh, stamped, answered>>
    /\ UNCHANGED <<thread_vars, loop_vars, stats_vars, percentile_vars, codec_vars, header_vars, iter_vars, fold_vars, huff_vars, draw_vars, round_vars, composite_vars, pace_vars, log_vars>>

\* The requests on the wire, as <<destination, id, seqn>>: the one being sent
\* and those in flight
OnWire ==
    (IF sending = None THEN {}
     ELSE { <<unwrap(sending).d, unwrap(sending).id, dest[unwrap(sending).d].seq>> })
    \cup UNION { { <<d, dest[d].inflight_packets[i].id, dest[d].inflight_packets[i].seqn>> :
                      i \in DOMAIN dest[d].inflight_packets } : d \in DOMAIN dest }

\* receiver_thread, transport.rs lines 315-318: the reply of the destination to
\* one of its requests is parsed and stamped with Instant::now()
RaceReply(d, id, seqn) ==
    /\ \A a \in answered : ~(a.d = d /\ a.id = id)
    /\ stamped' = Append(stamped, PacketData(seqn, dest[d].ident, Some(now)))
    /\ answered' = answered \cup {[d |-> d, id |-> id, at |-> now]}
    /\ op' = [NoOp EXCEPT !.kind = "reply", !.d = d]
    /\ UNCHANGED <<config, dest, now, last_refresh, sending>>
    /\ UNCHANGED <<thread_vars, loop_vars, stats_vars, percentile_vars, codec_vars, header_vars, iter_vars, fold_vars, huff_vars, draw_vars, round_vars, composite_vars, pace_vars, log_vars>>

\* recv_all lines 457-461: every reply of the buffer, in order, is offered to
\* every destination
RECURSIVE recv_each(_, _, _)
recv_each(ds, replies, t) ==
    IF replies = <<>> THEN ds
    ELSE recv_each(Comms_recv_all(ds, Head(replies), t), Tail(replies), t)

\* Comms::recv_all, called by the main thread between two sends
RaceRecvAll ==
    /\ sending = None
    /\ stamped # <<>>
    /\ dest' = recv_each(dest, stamped, now)
    /\ stamped' = <<>>
    /\ op' = [NoOp EXCEPT !.kind = "recv_all"]
    /\ UNCHANGED <<config, now, last_refresh, sending, answered>>
    /\ UNCHANGED <<thread_vars, loop_vars, stats_vars, percentile_vars, codec_vars, header_vars, iter_vars, fold_vars, huff_vars, draw_vars, round_vars, composite_vars, pace_vars, log_vars>>

RaceTick == Tick

RaceAdd == AddFirst

RaceTransmitStep ==
    \E d \in DOMAIN dest, rnd_num \in RndDraws :
        \E min_delay \in MinDelays(dest[d]) : RaceTransmit(d, min_delay, rnd_num)

RaceStampStep == \E jitter \in 0..MaxJitter, new_seq \in U16Draws : RaceStamp(jitter, new_seq)

RaceReplyStep == \E r \in OnWire : RaceReply(r[1], r[2], r[3])

NextRace ==
    \/ RaceTick
    \/ RaceAdd
    \/ RaceTransmitStep
    \/ RaceStampStep
    \/ RaceReplyStep
    \/ RaceRecvAll

\* The main thread sends and calls recv_all; the receiver thread stamps replies
\* at any moment after the request is on the wire.
SpecRace == Init /\ [][NextRace]_vars

\* C36: once recv_all has been given the reply to a packet in flight, the packet
\* is in recv_packets: no packet whose reply the receiver thread has stamped is
\* left in inflight_packets after the replies have been matched, however
\* PacketSent::new and the receiver thread interleave.
C36_AnsweredPromoted ==
    (sending = None /\ stamped = <<>>)
    => \A a \in answered :
          \A i \in DOMAIN dest[a.d].inflight_packets :
              dest[a.d].inflight_packets[i].id # a.id

\* The part of C36 the code keeps: a packet whose reply is stamped at or after
\* its send stamp is promoted.
C36_PromotedWhenStampedLater ==
    (sending = None /\ stamped = <<>>)
    => \A a \in answered :
          \A i \in DOMAIN dest[a.d].inflight_packets :
              dest[a.d].inflight_packets[i].id = a.id
              => a.at < dest[a.d].inflight_packets[i].sent

\* C37: inflight_packets of a destination never holds more than 64 entries (the
\* upper end of the draw), also when the destination never answers and cleanup
\* is never called.
C37_InflightBounded ==
    \A d \in DOMAIN dest : Len(dest[d].inflight_packets) <= RndHi

\* A send has filled inflight_packets up to 64 entries.
C37_Witness ==
    /\ op.kind = "send"
    /\ op.why = "sent"
    /\ Len(dest[1].inflight_packets) = RndHi

\* With 64 entries in flight the greatest draw is refused.
C37_WitnessRefused ==
    /\ op.kind = "send"
    /\ op.why = "refused"
    /\ drawn # None
    /\ unwrap(drawn).rnd_num = RndHi - 1
    /\ unwrap(drawn).min_delay = dest[1].interval
    /\ Len(dest[1].inflight_packets) = RndHi

\* The counters of a destination against its queues
CountersBound(dst) ==
    /\ dst.recv_count <= dst.sent_count
    /\ Len(dst.inflight_packets) <= dst.sent_count - dst.recv_count

\* One step of a destination: the counters do not decrease, sent_count grows by
\* one exactly when a packet is pushed to inflight_packets, recv_count by the
\* number of entries added to recv_packets
CountersStep(before, after, sent, cleaned) ==
    /\ after.sent_count >= before.sent_count
    /\ after.recv_count >= before.recv_count
    /\ after.sent_count - before.sent_count = (IF sent THEN 1 ELSE 0)
    /\ ~cleaned => after.recv_count - before.recv_count
                       = Len(after.recv_packets) - Len(before.recv_packets)
    /\ cleaned => after.recv_count = before.recv_count

\* C38: in every state of a destination recv_count <= sent_count and the length
\* of inflight_packets is at most sent_count - recv_count; sent_count grows by 1
\* on each successful send, recv_count by 1 for each entry promoted to
\* recv_packets, and neither counter ever decreases.
C38_Counters ==
    /\ [](\A d \in DOMAIN dest : CountersBound(dest[d]))
    /\ [][\A d \in DOMAIN dest :
            CountersStep(dest[d], dest'[d],
                         op'.kind = "send" /\ op'.d = d /\ op'.why = "sent",
                         op'.kind = "cleanup")]_vars

\* One reply has promoted two entries: both are counted, and nothing is in flight.
C38_Witness ==
    /\ op.kind = "recv"
    /\ op.n = 2
    /\ dest[1].sent_count = 2
    /\ dest[1].recv_count = 2
    /\ Len(dest[1].recv_packets) = 2

\* ------------------------------------------------- main: the pacing delay
\* recv_all, transport.rs line 446: the longest wait it takes, in milliseconds
RecvAllLimit == 5000
\* The targets of a configuration
MaxTargets == 3
\* TargetHost.frequency, pings per second (0 makes main divide by zero)
FrequencyDraws == {1, 2, 10, 1000}
\* precision_mult 0.1, 0.2, 0.5, 1.0 and 10.0, in tenths
PrecisionDraws_x10 == {1, 2, 5, 10, 100}

\* main.rs line 116: Duration::from_secs(1) / target.frequency, in microseconds.
\* The jitter of lines 118-119, at most interval_ms nanoseconds, is below the
\* microsecond for every frequency from 1.
target_interval(frequency) == 1000000 \div frequency

\* Comms::get_delay, lines 421-436, in milliseconds; freq in millihertz
get_delay(ivals, precision) ==
    LET recips == [i \in DOMAIN ivals |-> 1000000000 \div ivals[i]]
        freq == (sum(recips) * precision) \div 10
    IN  IF freq > 0 THEN 1000000 \div freq ELSE 1

InitPace ==
    /\ config = [forget_inflight |-> MaxForget, forget_recv |-> MaxForget, forget_lost |-> MaxForget]
    /\ dest = <<>>
    /\ now = 0
    /\ last_refresh = 0 - (CliRefresh + 1)
    /\ op = NoOp
    /\ ThreadsInit
    /\ LoopInit
    /\ StatsIdle
    /\ PercentilesIdle
    /\ CodecIdle
    /\ HeaderIdle
    /\ IterIdle
    /\ FoldIdle
    /\ HuffIdle
    /\ DrawIdle
    /\ RoundIdle
    /\ CompositeIdle
    /\ RaceIdle
    /\ precision_x10 \in PrecisionDraws_x10
    /\ intervals = <<>>
    /\ wait_ms = None
    /\ pace_pc = "config"
    /\ LogIdle

\* main.rs lines 115-122: one target of the configuration is added
PaceAddTarget(frequency) ==
    /\ pace_pc = "config"
    /\ Len(intervals) < MaxTargets
    /\ intervals' = Append(intervals, target_interval(frequency))
    /\ UNCHANGED <<precision_x10, wait_ms, pace_pc>>
    /\ UNCHANGED outside_pace

\* main.rs line 127: let wait = t.get_delay()
PaceGetDelay ==
    /\ pace_pc = "config"
    /\ wait_ms' = Some(get_delay(intervals, precision_x10))
    /\ pace_pc' = "loop"
    /\ UNCHANGED <<precision_x10, intervals>>
    /\ UNCHANGED outside_pace

\* main.rs line 131, transport.rs lines 444-449: t.recv_all(wait) panics when
\* wait.as_millis() > 5000
PaceRecvAll ==
    /\ pace_pc = "loop"
    /\ pace_pc' = IF unwrap(wait_ms) > RecvAllLimit THEN "aborted" ELSE "waited"
    /\ UNCHANGED <<precision_x10, intervals, wait_ms>>
    /\ UNCHANGED outside_pace

\* main.rs lines 132-259: the rest of the round, back to recv_all
PaceRound ==
    /\ pace_pc = "waited"
    /\ pace_pc' = "loop"
    /\ UNCHANGED <<precision_x10, intervals, wait_ms>>
    /\ UNCHANGED outside_pace

NextPace ==
    \/ \E frequency \in FrequencyDraws : PaceAddTarget(frequency)
    \/ PaceGetDelay
    \/ PaceRecvAll
    \/ PaceRound

SpecPace == InitPace /\ [][NextPace]_vars

\* C39: for every configuration the daemon accepts (a positive precision_mult,
\* targets of frequency 1 or more) the delay get_delay returns and main passes
\* to recv_all is at most 5000 ms, and recv_all never aborts on it.
C39_DelayWithinLimit ==
    /\ pace_pc # "aborted"
    /\ wait_ms # None => unwrap(wait_ms) <= RecvAllLimit

\* The part of C39 the code keeps: with precision_mult x (sum of the
\* frequencies) of 0.2 or more, or without any target, the delay is at most
\* 5000 ms.
C39_DelayWhenFastEnough ==
    (wait_ms # None /\ (intervals = <<>> \/ precision_x10 >= 2))
    => (unwrap(wait_ms) <= RecvAllLimit /\ pace_pc # "aborted")

\* ------------------------------------------------- main: the log files
\* The monotonic clock stops here
MaxLogTime == 5
\* report_every_secs (main.rs line 107, 15 s), in ticks
ReportEvery == 2
\* The 60 s main.rs lines 104 and 106 set its timers back by, in ticks
TimerBack == 8
\* cli_refresh (main.rs line 94), in ticks
LogRefreshEvery == 0
\* Destinations that log
LogDests == 1..2
\* Values of get_logfile_now: date and hour
LogHours == {10, 11}

\* main.rs lines 140-143: the report is due and the hour has changed
rotates_every_refresh(since_report_elapsed, newstrnow, cur) == newstrnow # cur
rotates(since_report_elapsed, newstrnow, cur) ==
    since_report_elapsed > ReportEvery /\ newstrnow # cur

\* main.rs lines 224-228: the time of the frame; `at`, the monotonic instant
\* of the write, is kept for the properties only
frame_time(since_report_elapsed, at) ==
    IF since_report_elapsed > ReportEvery
    THEN [kind |-> "Timestamp", elapsed |-> 0, at |-> at]
    ELSE [kind |-> "Elapsed", elapsed |-> since_report_elapsed, at |-> at]

\* Destination::create_log_file: File::create makes the file or truncates it
create_log_file(files, ending) == [files EXCEPT ![ending] = Some(<<>>)]

\* FrameData::encode on dest.logfile: the frame goes to the end of the file
log_write(files, ending, framedata) ==
    [files EXCEPT ![ending] = Some(Append(unwrap(files[ending]), framedata))]

InitLog ==
    /\ config = [forget_inflight |-> MaxForget, forget_recv |-> MaxForget, forget_lost |-> MaxForget]
    /\ dest = <<>>
    /\ now = 0
    /\ last_refresh = 0 - (CliRefresh + 1)
    /\ op = NoOp
    /\ ThreadsInit
    /\ LoopInit
    /\ StatsIdle
    /\ PercentilesIdle
    /\ CodecIdle
    /\ HeaderIdle
    /\ IterIdle
    /\ FoldIdle
    /\ HuffIdle
    /\ DrawIdle
    /\ RoundIdle
    /\ CompositeIdle
    /\ RaceIdle
    /\ PaceIdle
    /\ mono = 0
    /\ utc_hour \in LogHours
    /\ strnow = 0
    /\ time_since_report = 0
    /\ refreshed_at = 0
    /\ logfiles = [d \in LogDests |-> [h \in LogHours |-> None]]
    /\ log_pc = "start"

\* main.rs lines 104-125: the timers start 60 s back, strnow is taken, and
\* every destination gets its first file
LogStart ==
    /\ log_pc = "start"
    /\ refreshed_at' = mono - TimerBack
    /\ time_since_report' = mono - TimerBack
    /\ strnow' = utc_hour
    /\ logfiles' = [d \in LogDests |-> create_log_file(logfiles[d], utc_hour)]
    /\ log_pc' = "loop"
    /\ UNCHANGED <<mono, utc_hour>>
    /\ UNCHANGED outside_log

\* Time passes on the monotonic clock
LogTick ==
    /\ mono < MaxLogTime
    /\ mono' = mono + 1
    /\ UNCHANGED <<utc_hour, strnow, time_since_report, refreshed_at, logfiles, log_pc>>
    /\ UNCHANGED outside_log

\* The wall clock reaches another hour (or is set to one)
LogHour(h) ==
    /\ h # utc_hour
    /\ utc_hour' = h
    /\ UNCHANGED <<mono, strnow, time_since_report, refreshed_at, logfiles, log_pc>>
    /\ UNCHANGED outside_log

\* main.rs lines 134-239: one refresh of the loop, its logging phase included
LogRefresh ==
    /\ log_pc = "loop"
    /\ mono - refreshed_at > LogRefreshEvery
    /\ LET since_report_elapsed == mono - time_since_report
           due == since_report_elapsed > ReportEvery
           rotate == rotates(since_report_elapsed, utc_hour, strnow)
           ending == IF rotate THEN utc_hour ELSE strnow
           opened == [d \in LogDests |->
                         IF rotate THEN create_log_file(logfiles[d], ending)
                         ELSE logfiles[d]]
       IN  /\ refreshed_at' = mono
           /\ time_since_report' = IF due THEN mono ELSE time_since_report
           /\ strnow' = ending
           /\ logfiles' = [d \in LogDests |->
                  log_write(opened[d], ending, frame_time(since_report_elapsed, mono))]
    /\ UNCHANGED <<mono, utc_hour, log_pc>>
    /\ UNCHANGED outside_log

LogHourStep == \E h \in LogHours : LogHour(h)

NextLog ==
    \/ LogStart
    \/ LogTick
    \/ LogHourStep
    \/ LogRefresh

SpecLog == InitLog /\ [][NextLog]_vars

\* The frames of the file of destination d with ending h; none when it does not exist
frames_of(d, h) == IF is_none(logfiles[d][h]) THEN <<>> ELSE unwrap(logfiles[d][h])

\* The index of the last keyframe before record i of f, 0 without one
keyframe_before(f, i) ==
    LET ks == {k \in 1..(i - 1) : f[k].kind = "Timestamp"}
    IN  IF ks = {} THEN 0 ELSE CHOOSE k \in ks : \A other \in ks : other <= k

====
